---- MODULE Spec2Model ----
(***************************************************************************)
(* WildAtlas: the species-aggregation pipeline.                            *)
(*                                                                         *)
(* The repository holds two revisions of the iucn client                   *)
(* (src/internal/iucn/client.go lines 1-283, and the revision with         *)
(* getDummyData in src/static/app.js lines 236-696) and the scraper        *)
(* pipeline (src/internal/iucn/client.go lines 285-636).  The variable     *)
(* impl says which of them a behaviour runs.                               *)
(*                                                                         *)
(* Strings the code splits or changes the case of (scientific names,       *)
(* common names, country codes) are sequences of one-character strings;    *)
(* strings the code only compares or copies (category codes, status        *)
(* labels, taxonomic ranks) are TLA+ strings.                              *)
(***************************************************************************)
EXTENDS Integers, Sequences, FiniteSets, TLC

\* ------------------------------------------------------------------------
\* Bounds of the model.
\* ------------------------------------------------------------------------

\* Capacity of the semaphore channel.  The code makes it with capacity 10
\* (client.go:150, app.js:549); the model runs the same code with a smaller
\* capacity so that more tasks than slots can exist.
SemCap == 1

\* Cap on the species list.  The code stops at 20 (client.go:158,
\* app.js:561); the model runs the same loop with a smaller cap so that
\* more qualifying assessments than the cap can exist.
MaxSpecies == 2

\* Longest assessment list the upstream returns in the model.
MaxAssess == 3

\* ------------------------------------------------------------------------
\* Strings as sequences of pieces: a piece is one space or a run of
\* characters without a space ("Panthera leo" is <<"Panthera", " ", "leo">>,
\* "" is <<>>).  Country codes are spelled letter by letter.
\* ------------------------------------------------------------------------

LowerLetters ==
    << "a", "b", "c", "d", "e", "f", "g", "h", "i", "j", "k", "l", "m",
       "n", "o", "p", "q", "r", "s", "t", "u", "v", "w", "x", "y", "z" >>

UpperLetters ==
    << "A", "B", "C", "D", "E", "F", "G", "H", "I", "J", "K", "L", "M",
       "N", "O", "P", "Q", "R", "S", "T", "U", "V", "W", "X", "Y", "Z" >>

\* strings.ToUpper, one character.
UpperChar(c) ==
    IF \E k \in DOMAIN LowerLetters : LowerLetters[k] = c
    THEN UpperLetters[CHOOSE k \in DOMAIN LowerLetters : LowerLetters[k] = c]
    ELSE c

ToUpper(s) == [k \in 1..Len(s) |-> UpperChar(s[k])]

RECURSIVE SplitAcc(_, _, _)
SplitAcc(s, cur, acc) ==
    IF s = <<>> THEN Append(acc, cur)
    ELSE IF Head(s) = " " THEN SplitAcc(Tail(s), <<>>, Append(acc, cur))
    ELSE SplitAcc(Tail(s), Append(cur, Head(s)), acc)

\* strings.Split(s, " "): one part more than there are spaces; "" gives [""].
Split(s) == SplitAcc(s, <<>>, <<>>)

\* ------------------------------------------------------------------------
\* The iucn client: pure helpers.
\* ------------------------------------------------------------------------

isEndangered(code) == code \in {"CR", "EN", "VU"}

\* Mutant of mapCategory: NT is left as it is.
mapCategoryThreatenedOnly(code) ==
    CASE code = "CR" -> "Critically Endangered"
      [] code = "EN" -> "Endangered"
      [] code = "VU" -> "Vulnerable"
      [] OTHER -> code

mapCategory(code) ==
    CASE code = "CR" -> "Critically Endangered"
      [] code = "EN" -> "Endangered"
      [] code = "VU" -> "Vulnerable"
      [] code = "NT" -> "Near Threatened"
      [] OTHER -> code

\* A nil *TaxonDetails / *CountryData.
Nil == [nil |-> TRUE]

\* The loop over details.CommonNames of client.go: every "eng" entry
\* overwrites s.Name, and the loop stops at the first "eng" entry with Main.
RECURSIVE CommonNameLoop(_, _)
CommonNameLoop(names, cur) ==
    IF names = <<>> THEN cur
    ELSE IF Head(names).Language = "eng"
         THEN IF Head(names).Main THEN Head(names).Name
              ELSE CommonNameLoop(Tail(names), Head(names).Name)
         ELSE CommonNameLoop(Tail(names), cur)

\* The loop over details.CommonNames of the getDummyData revision: it stops
\* at the first "eng" entry, whatever its Main flag.
RECURSIVE CommonNameLoopFirst(_, _)
CommonNameLoopFirst(names, cur) ==
    IF names = <<>> THEN cur
    ELSE IF Head(names).Language = "eng" THEN Head(names).Name
         ELSE CommonNameLoopFirst(Tail(names), cur)

\* "Fallback if no common name found".
NameFallback(name, scientificName) ==
    IF name = <<>> THEN scientificName ELSE name

\* Mutant of BuildSpecies: a failed detail fetch leaves the species without a
\* name and with the status code unmapped.
BuildSpeciesNoFallback(a, res) ==
    LET ok == (~res.err) /\ res.details # Nil
        d  == res.details
    IN  [Name           |-> IF ok THEN NameFallback(CommonNameLoop(d.CommonNames, <<>>),
                                                    a.TaxonScientificName)
                            ELSE <<>>,
         ScientificName |-> a.TaxonScientificName,
         Status         |-> IF ok THEN mapCategory(a.RedListCategoryCode)
                            ELSE a.RedListCategoryCode,
         Kingdom        |-> IF ok THEN d.KingdomName ELSE "",
         Phylum         |-> IF ok THEN d.PhylumName ELSE "",
         Class          |-> IF ok THEN d.ClassName ELSE "",
         Order          |-> IF ok THEN d.OrderName ELSE "",
         Family         |-> IF ok THEN d.FamilyName ELSE ""]

\* The Species a task of client.go builds from its assessment a and the
\* (details, err) pair GetSpeciesDetails returned.
BuildSpecies(a, res) ==
    LET ok == (~res.err) /\ res.details # Nil
        d  == res.details
        nm == IF ok THEN CommonNameLoop(d.CommonNames, <<>>) ELSE <<>>
    IN  [Name           |-> NameFallback(nm, a.TaxonScientificName),
         ScientificName |-> a.TaxonScientificName,
         Status         |-> mapCategory(a.RedListCategoryCode),
         Kingdom        |-> IF ok THEN d.KingdomName ELSE "",
         Phylum         |-> IF ok THEN d.PhylumName ELSE "",
         Class          |-> IF ok THEN d.ClassName ELSE "",
         Order          |-> IF ok THEN d.OrderName ELSE "",
         Family         |-> IF ok THEN d.FamilyName ELSE ""]

\* The same in the getDummyData revision: the error is dropped
\* (details, _ := ...), the assessment's Url is copied.
BuildSpeciesUrl(a, res) ==
    LET ok == res.details # Nil
        d  == res.details
        nm == IF ok THEN CommonNameLoopFirst(d.CommonNames, <<>>) ELSE <<>>
    IN  [Name           |-> NameFallback(nm, a.TaxonScientificName),
         ScientificName |-> a.TaxonScientificName,
         Status         |-> mapCategory(a.RedListCategoryCode),
         Kingdom        |-> IF ok THEN d.KingdomName ELSE "",
         Phylum         |-> IF ok THEN d.PhylumName ELSE "",
         Class          |-> IF ok THEN d.ClassName ELSE "",
         Order          |-> IF ok THEN d.OrderName ELSE "",
         Family         |-> IF ok THEN d.FamilyName ELSE "",
         Url            |-> a.Url]

\* Species{}: the zero value appended as a pre-allocated slot.
ZeroSpecies ==
    [Name |-> <<>>, ScientificName |-> <<>>, Status |-> "", Kingdom |-> "",
     Phylum |-> "", Class |-> "", Order |-> "", Family |-> ""]

ZeroSpeciesUrl ==
    [Name |-> <<>>, ScientificName |-> <<>>, Status |-> "", Kingdom |-> "",
     Phylum |-> "", Class |-> "", Order |-> "", Family |-> "", Url |-> ""]

\* ------------------------------------------------------------------------
\* getDummyData (the revision in app.js).
\* ------------------------------------------------------------------------

DummyCA ==
    [Country |-> <<"Canada">>, CountryCode |-> <<"C", "A">>,
     Species |-> <<
       [Name |-> <<"Polar", " ", "Bear">>,
        ScientificName |-> <<"Ursus", " ", "maritimus">>,
        Status |-> "Vulnerable", Kingdom |-> "Animalia", Phylum |-> "Chordata",
        Class |-> "Mammalia", Order |-> "Carnivora", Family |-> "Ursidae",
        Url |-> "https://www.iucnredlist.org/species/22823/14871490"],
       [Name |-> <<"Vancouver", " ", "Island", " ", "Marmot">>,
        ScientificName |-> <<"Marmota", " ", "vancouverensis">>,
        Status |-> "Critically Endangered", Kingdom |-> "Animalia", Phylum |-> "Chordata",
        Class |-> "Mammalia", Order |-> "Rodentia", Family |-> "Sciuridae",
        Url |-> "https://www.iucnredlist.org/species/12828/111561606"],
       [Name |-> <<"Whooping", " ", "Crane">>,
        ScientificName |-> <<"Grus", " ", "americana">>,
        Status |-> "Endangered", Kingdom |-> "Animalia", Phylum |-> "Chordata",
        Class |-> "Aves", Order |-> "Gruiformes", Family |-> "Gruidae",
        Url |-> "https://www.iucnredlist.org/species/22692156/111562000"]
     >>]

DummyBR ==
    [Country |-> <<"Brazil">>, CountryCode |-> <<"B", "R">>,
     Species |-> <<
       [Name |-> <<"Golden", " ", "Lion", " ", "Tamarin">>,
        ScientificName |-> <<"Leontopithecus", " ", "rosalia">>,
        Status |-> "Endangered", Kingdom |-> "Animalia", Phylum |-> "Chordata",
        Class |-> "Mammalia", Order |-> "Primates", Family |-> "Callitrichidae",
        Url |-> "https://www.iucnredlist.org/species/11506/192319267"],
       [Name |-> <<"Jaguar">>,
        ScientificName |-> <<"Panthera", " ", "onca">>,
        Status |-> "Near Threatened", Kingdom |-> "Animalia", Phylum |-> "Chordata",
        Class |-> "Mammalia", Order |-> "Carnivora", Family |-> "Felidae",
        Url |-> "https://www.iucnredlist.org/species/15953/123791436"],
       [Name |-> <<"Hyacinth", " ", "Macaw">>,
        ScientificName |-> <<"Anodorhynchus", " ", "hyacinthinus">>,
        Status |-> "Vulnerable", Kingdom |-> "Animalia", Phylum |-> "Chordata",
        Class |-> "Aves", Order |-> "Psittaciformes", Family |-> "Psittacidae",
        Url |-> "https://www.iucnredlist.org/species/22685516/93077457"]
     >>]

DummyAU ==
    [Country |-> <<"Australia">>, CountryCode |-> <<"A", "U">>,
     Species |-> <<
       [Name |-> <<"Koala">>,
        ScientificName |-> <<"Phascolarctos", " ", "cinereus">>,
        Status |-> "Vulnerable", Kingdom |-> "Animalia", Phylum |-> "Chordata",
        Class |-> "Mammalia", Order |-> "Diprotodontia", Family |-> "Phascolarctidae",
        Url |-> "https://www.iucnredlist.org/species/16892/166496779"],
       [Name |-> <<"Tasmanian", " ", "Devil">>,
        ScientificName |-> <<"Sarcophilus", " ", "harrisii">>,
        Status |-> "Endangered", Kingdom |-> "Animalia", Phylum |-> "Chordata",
        Class |-> "Mammalia", Order |-> "Dasyuromorphia", Family |-> "Dasyuridae",
        Url |-> "https://www.iucnredlist.org/species/40540/10331066"],
       [Name |-> <<"Regent", " ", "Honeyeater">>,
        ScientificName |-> <<"Anthochaera", " ", "phrygia">>,
        Status |-> "Critically Endangered", Kingdom |-> "Animalia", Phylum |-> "Chordata",
        Class |-> "Aves", Order |-> "Passeriformes", Family |-> "Meliphagidae",
        Url |-> "https://www.iucnredlist.org/species/22704415/219632355"]
     >>]

getDummyData(code) ==
    CASE code = <<"C", "A">> -> DummyCA
      [] code = <<"B", "R">> -> DummyBR
      [] code = <<"A", "U">> -> DummyAU
      [] OTHER -> Nil

\* ------------------------------------------------------------------------
\* What the upstream API can answer (the model's inputs).
\* ------------------------------------------------------------------------

\* Country codes a caller passes.  "br" is uppercased to a code of
\* getDummyData, "us" to one that is not.
Codes == { <<"u", "s">>, <<"b", "r">> }

\* Assessments as the /countries/{code} payload lists them.
UpstreamAssessments ==
    { [taxon_scientific_name |-> <<"Panthera", " ", "leo">>,
       red_list_category_code |-> "CR", url |-> "https://iucn/1"],
      [taxon_scientific_name |-> <<>>,
       red_list_category_code |-> "EN", url |-> "https://iucn/2"],
      [taxon_scientific_name |-> <<"Lynx", " ", "lynx">>,
       red_list_category_code |-> "NT", url |-> "https://iucn/3"] }

RECURSIVE SeqsUpTo(_, _)
SeqsUpTo(S, n) ==
    IF n = 0 THEN { <<>> }
    ELSE LET shorter == SeqsUpTo(S, n - 1)
         IN  shorter \cup { Append(q, x) : q \in shorter, x \in S }

\* The decodable /countries/{code} payloads of the fan-out.  They carry no
\* country name; the payloads with a name are ShortPayloads and LivePayloads.
CountryPayloads ==
    [ name : { <<>> },
      assessments : SeqsUpTo(UpstreamAssessments, MaxAssess) ]

\* The decodable /taxa/scientific_name payloads.
TaxonPayloads ==
    { [KingdomName |-> "Animalia", PhylumName |-> "Chordata",
       ClassName |-> "Mammalia", OrderName |-> "Carnivora",
       FamilyName |-> "Felidae",
       CommonNames |-> << [Name |-> <<"Lion">>, Language |-> "eng", Main |-> TRUE] >>],
      [KingdomName |-> "Animalia", PhylumName |-> "Chordata",
       ClassName |-> "Mammalia", OrderName |-> "Carnivora",
       FamilyName |-> "Felidae",
       CommonNames |-> << [Name |-> <<"Leon">>, Language |-> "spa", Main |-> TRUE] >>] }

\* How one upstream request can end.
FailureKinds == { "transport", "status", "decode" }

\* ------------------------------------------------------------------------
\* State.
\* ------------------------------------------------------------------------

VARIABLES
    impl,          \* "client": client.go; "dummy": the getDummyData revision
    pc,            \* where GetSpeciesByCountry stands
    countryCode,   \* its parameter, after ToUpper
    countryResp,   \* the decoded CountryResponse
    i,             \* position of the range loop in countryResp.Assessments
    idx,           \* idx of the loop body
    speciesList,   \* the slice of pre-allocated slots
    mu,            \* holder of the mutex
    sem,           \* number of tokens in the semaphore channel
    wg,            \* counter of the WaitGroup
    tasks,         \* the goroutines started by the loop, in start order
    ret,           \* what GetSpeciesByCountry returned
    CountryCodeToName,  \* Client.CountryCodeToName
    cache,         \* Scraper.cache
    cacheMutex,    \* Scraper.cacheMutex: readers holding it, writer holding it
    callers,       \* the goroutines calling Scraper.GetSpeciesByCountry
    sc,            \* per caller: where its call stands and its locals
    now,           \* the wall clock, in ticks
    hist,          \* the calls that returned: code, record, whether it scraped
    arg,           \* argument of the function applied (function specifications)
    out,           \* its result
    reqs,          \* upstream requests the current call has completed
    bg,            \* the goroutine NewClient started: go c.FetchAllCountries()
    h,             \* the HTTP handler: the request in hand and its response
    fetchAlls,     \* FetchAllCountries calls started since the process began
    par            \* requests served at once: each its own GetSpeciesByCountry

clientVars == << pc, countryCode, countryResp, i, idx, speciesList, mu, sem,
                 wg, tasks, ret, CountryCodeToName >>

scraperVars == << cache, cacheMutex, callers, sc, now, hist >>

fnVars == << arg, out, par >>

serverVars == << bg, h, fetchAlls >>

nonClientVars == << scraperVars, fnVars, reqs, serverVars >>

vars == << impl, clientVars, scraperVars, fnVars, reqs, serverVars >>

\* mu: nobody holds it / the goroutine of GetSpeciesByCountry holds it / task
\* t > 0 holds it.
Unlocked == -1

MainG == 0

\* (details, err) before GetSpeciesDetails has returned.
NoRes == [details |-> Nil, err |-> FALSE]

NoResp == [name |-> <<>>, assessments |-> <<>>]

NoRet == [data |-> Nil, err |-> FALSE, detail |-> ""]

\* json decoding into []Assessment: client.go's struct has no Url field.
DecodeAssessment(j) ==
    IF impl = "dummy"
    THEN [TaxonScientificName |-> j.taxon_scientific_name,
          RedListCategoryCode |-> j.red_list_category_code,
          Url |-> j.url]
    ELSE [TaxonScientificName |-> j.taxon_scientific_name,
          RedListCategoryCode |-> j.red_list_category_code]

DecodeCountry(p) ==
    [name |-> p.name,
     assessments |-> [k \in 1..Len(p.assessments) |-> DecodeAssessment(p.assessments[k])]]

\* Mutant of GetCountryName: the code is looked up as given.
GetCountryNameAsGiven(code) ==
    IF code \in DOMAIN CountryCodeToName
    THEN CountryCodeToName[code]
    ELSE code

GetCountryName(code) ==
    IF ToUpper(code) \in DOMAIN CountryCodeToName
    THEN CountryCodeToName[ToUpper(code)]
    ELSE code

\* No arguments, no result: the behaviour applies no function on its own.
NoArg == [none |-> TRUE]

ClientIdle ==
    /\ pc = "idle"
    /\ countryCode = <<>>
    /\ countryResp = NoResp
    /\ i = 0
    /\ idx = 0
    /\ speciesList = <<>>
    /\ mu = Unlocked
    /\ sem = 0
    /\ wg = 0
    /\ tasks = <<>>
    /\ ret = NoRet
    /\ CountryCodeToName = <<>>

ScraperIdle ==
    /\ cache = <<>>
    /\ cacheMutex = [readers |-> 0, writer |-> FALSE]
    /\ callers = {}
    /\ sc = <<>>
    /\ now = 0
    /\ hist = <<>>

FnIdle ==
    /\ arg = NoArg
    /\ out = NoArg

\* No request is served beside the one call of GetSpeciesByCountry.
NoPar == <<>>

\* No upstream request completed yet: the /countries/{code} requests, those
\* of them that failed, and the taxonomy requests of each slot index.
NoReqs == [country |-> 0, failed |-> 0, taxa |-> <<>>]

\* No FetchAllCountries goroutine / the one `go c.FetchAllCountries()` has
\* started, its /countries request under way.
NoBg == [pc |-> "none", list |-> <<>>, k |-> 0]

BgStarted == [pc |-> "get", list |-> <<>>, k |-> 0]

\* No response written yet.
NoResponse == [status |-> 0, header |-> <<>>, body |-> [kind |-> "none"]]

\* The handler with no request in hand.  errLog is what the handler wrote to
\* the server log about an error of the request in hand ("" when nothing);
\* health is the last answer of /api/health.
HandlerIdle == [pc |-> "idle", method |-> "", path |-> <<>>, countryCode |-> <<>>,
                seen |-> 0, served |-> 0, resp |-> NoResponse, errLog |-> "",
                health |-> NoResponse]

\* A Client as NewClient leaves it, before any call.
Init ==
    /\ impl \in {"client", "dummy"}
    /\ ClientIdle
    /\ ScraperIdle
    /\ FnIdle
    /\ reqs = NoReqs
    /\ bg = BgStarted
    /\ h = HandlerIdle
    /\ fetchAlls = 1
    /\ par = NoPar

\* ------------------------------------------------------------------------
\* Client.GetSpeciesByCountry.
\* ------------------------------------------------------------------------

\* Mutant of Invoke: the code is used as given.
InvokeAsGiven(code) ==
    /\ impl \in {"client", "dummy"}
    /\ arg = NoArg
    /\ pc = "idle"
    /\ countryCode' = code
    /\ IF impl = "dummy" /\ getDummyData(code) # Nil
       THEN /\ ret' = [data |-> getDummyData(code), err |-> FALSE, detail |-> ""]
            /\ pc' = "returned"
       ELSE /\ pc' = "get"
            /\ UNCHANGED ret
    /\ UNCHANGED << impl, countryResp, i, idx, speciesList, mu, sem, wg, tasks,
                    CountryCodeToName >>
    /\ UNCHANGED nonClientVars

\* Mutant of Invoke: the request goes out for every code, the built-in
\* records are not consulted first.
InvokeRequestsFirst(code) ==
    /\ impl \in {"client", "dummy"}
    /\ arg = NoArg
    /\ pc = "idle"
    /\ countryCode' = ToUpper(code)
    /\ pc' = "get"
    /\ UNCHANGED << impl, countryResp, i, idx, speciesList, mu, sem, wg, tasks, ret,
                    CountryCodeToName >>
    /\ UNCHANGED nonClientVars

\* Entry: uppercase the code; the getDummyData revision answers its built-in
\* codes at once; otherwise the /countries/{code} request goes out.
Invoke(code) ==
    /\ impl \in {"client", "dummy"}
    /\ arg = NoArg
    /\ pc = "idle"
    /\ countryCode' = ToUpper(code)
    /\ IF impl = "dummy" /\ getDummyData(ToUpper(code)) # Nil
       THEN /\ ret' = [data |-> getDummyData(ToUpper(code)), err |-> FALSE, detail |-> ""]
            /\ pc' = "returned"
       ELSE /\ pc' = "get"
            /\ UNCHANGED ret
    /\ UNCHANGED << impl, countryResp, i, idx, speciesList, mu, sem, wg, tasks,
                    CountryCodeToName >>
    /\ UNCHANGED nonClientVars

\* The errors GetSpeciesByCountry returns for a failed /countries/{code}
\* request: the transport error, the status of the answer, or the decoding
\* error, each wrapped in a message.
CountryErrors(kind) ==
    CASE kind = "transport" -> { "failed to make request: dial tcp: connection refused" }
      [] kind = "status"    -> { "API returned status: 404", "API returned status: 500" }
      [] kind = "decode"    -> { "failed to decode response: unexpected EOF" }

\* Mutant of GetFails: a failed request is issued once more.
GetFailsRetry(kind) ==
    /\ pc = "get"
    /\ kind \in FailureKinds
    /\ reqs' = [reqs EXCEPT !.country = @ + 1, !.failed = @ + 1]
    /\ IF reqs.country = 0
       THEN UNCHANGED << pc, ret >>
       ELSE /\ \E detail \in CountryErrors(kind) :
                  ret' = [data |-> Nil, err |-> TRUE, detail |-> detail]
            /\ pc' = "returned"
    /\ UNCHANGED << impl, countryCode, countryResp, i, idx, speciesList, mu, sem,
                    wg, tasks, CountryCodeToName >>
    /\ UNCHANGED << scraperVars, fnVars, serverVars >>

\* The request fails, answers a status other than 200, or its body does not
\* decode: return nil and an error.
GetFails(kind) ==
    /\ pc = "get"
    /\ kind \in FailureKinds
    /\ reqs' = [reqs EXCEPT !.country = @ + 1, !.failed = @ + 1]
    /\ \E detail \in CountryErrors(kind) :
          ret' = [data |-> Nil, err |-> TRUE, detail |-> detail]
    /\ pc' = "returned"
    /\ UNCHANGED << impl, countryCode, countryResp, i, idx, speciesList, mu, sem,
                    wg, tasks, CountryCodeToName >>
    /\ UNCHANGED << scraperVars, fnVars, serverVars >>

GetDecodes(p) ==
    /\ pc = "get"
    /\ reqs' = [reqs EXCEPT !.country = @ + 1]
    /\ countryResp' = DecodeCountry(p)
    /\ i' = 1
    /\ pc' = "loop"
    /\ UNCHANGED << impl, countryCode, idx, speciesList, mu, sem, wg, tasks, ret,
                    CountryCodeToName >>
    /\ UNCHANGED << scraperVars, fnVars, serverVars >>

\* Mutant of LoopSkip: an assessment of another category still gets a slot,
\* which no task fills.
LoopSkipKeepsSlot ==
    /\ pc = "loop"
    /\ i <= Len(countryResp.assessments)
    /\ ~isEndangered(countryResp.assessments[i].RedListCategoryCode)
    /\ i' = i + 1
    /\ speciesList' = Append(speciesList, ZeroSpecies)
    /\ UNCHANGED << impl, pc, countryCode, countryResp, idx, mu, sem,
                    wg, tasks, ret, CountryCodeToName >>
    /\ UNCHANGED nonClientVars

\* An assessment that is not CR, EN or VU is passed over.
LoopSkip ==
    /\ pc = "loop"
    /\ i <= Len(countryResp.assessments)
    /\ ~isEndangered(countryResp.assessments[i].RedListCategoryCode)
    /\ i' = i + 1
    /\ UNCHANGED << impl, pc, countryCode, countryResp, idx, speciesList, mu, sem,
                    wg, tasks, ret, CountryCodeToName >>
    /\ UNCHANGED nonClientVars

\* mu.Lock() of the loop body.
LoopLock ==
    /\ pc = "loop"
    /\ i <= Len(countryResp.assessments)
    /\ isEndangered(countryResp.assessments[i].RedListCategoryCode)
    /\ mu = Unlocked
    /\ mu' = MainG
    /\ pc' = "locked"
    /\ UNCHANGED << impl, countryCode, countryResp, i, idx, speciesList, sem, wg,
                    tasks, ret, CountryCodeToName >>
    /\ UNCHANGED nonClientVars

\* Mutant of LoopAppend: the length check is missing.
LoopAppendNoCap ==
    /\ pc = "locked"
    /\ mu' = Unlocked
    /\ speciesList' = Append(speciesList,
                             IF impl = "dummy" THEN ZeroSpeciesUrl ELSE ZeroSpecies)
    /\ idx' = Len(speciesList) + 1
    /\ pc' = "spawn"
    /\ UNCHANGED << impl, countryCode, countryResp, i, sem, wg, tasks, ret,
                    CountryCodeToName >>
    /\ UNCHANGED nonClientVars

\* Under the lock: break when the list is full, else append a zero slot and
\* remember its index; mu.Unlock().
LoopAppend ==
    /\ pc = "locked"
    /\ mu' = Unlocked
    /\ IF Len(speciesList) >= MaxSpecies
       THEN /\ pc' = "wait"
            /\ UNCHANGED << speciesList, idx >>
       ELSE /\ speciesList' = Append(speciesList,
                                     IF impl = "dummy" THEN ZeroSpeciesUrl ELSE ZeroSpecies)
            /\ idx' = Len(speciesList) + 1
            /\ pc' = "spawn"
    /\ UNCHANGED << impl, countryCode, countryResp, i, sem, wg, tasks, ret,
                    CountryCodeToName >>
    /\ UNCHANGED nonClientVars

\* Mutant of LoopSpawn: every task is handed the index of the first slot.
LoopSpawnFirstSlot ==
    /\ pc = "spawn"
    /\ wg' = wg + 1
    /\ tasks' = Append(tasks, [pc |-> "acquire", idx |-> 1,
                               a |-> countryResp.assessments[i], res |-> NoRes])
    /\ i' = i + 1
    /\ pc' = "loop"
    /\ UNCHANGED << impl, countryCode, countryResp, idx, speciesList, mu, sem, ret,
                    CountryCodeToName >>
    /\ UNCHANGED nonClientVars

\* wg.Add(1); go func(idx, a).
LoopSpawn ==
    /\ pc = "spawn"
    /\ wg' = wg + 1
    /\ tasks' = Append(tasks, [pc |-> "acquire", idx |-> idx,
                               a |-> countryResp.assessments[i], res |-> NoRes])
    /\ i' = i + 1
    /\ pc' = "loop"
    /\ UNCHANGED << impl, countryCode, countryResp, idx, speciesList, mu, sem, ret,
                    CountryCodeToName >>
    /\ UNCHANGED nonClientVars

\* The range loop is over.
LoopEnd ==
    /\ pc = "loop"
    /\ i > Len(countryResp.assessments)
    /\ pc' = "wait"
    /\ UNCHANGED << impl, countryCode, countryResp, i, idx, speciesList, mu, sem,
                    wg, tasks, ret, CountryCodeToName >>
    /\ UNCHANGED nonClientVars

\* Mutant of Wait: no barrier, the caller goes on while tasks still run.
WaitNoBarrier ==
    /\ pc = "wait"
    /\ pc' = "resolve"
    /\ UNCHANGED << impl, countryCode, countryResp, i, idx, speciesList, mu, sem,
                    wg, tasks, ret, CountryCodeToName >>
    /\ UNCHANGED nonClientVars

\* wg.Wait() returns when the counter is zero.
Wait ==
    /\ pc = "wait"
    /\ wg = 0
    /\ pc' = "resolve"
    /\ UNCHANGED << impl, countryCode, countryResp, i, idx, speciesList, mu, sem,
                    wg, tasks, ret, CountryCodeToName >>
    /\ UNCHANGED nonClientVars

\* The map once the assignment FetchAllCountries is in the middle of is done.
IndexAfterAssign ==
    [c \in DOMAIN CountryCodeToName \cup {bg.list[bg.k].Code} |->
        IF c = bg.list[bg.k].Code THEN bg.list[bg.k].En ELSE CountryCodeToName[c]]

\* What a lookup made while that assignment is under way can return: the
\* entry of the map before or after it, or a miss (the reader can see the
\* buckets of a map that is growing in a state no reader should see), and
\* GetCountryName returns the code for a miss.
RacingLookups(code) ==
    { GetCountryName(code),
      IF ToUpper(code) \in DOMAIN IndexAfterAssign
      THEN IndexAfterAssign[ToUpper(code)]
      ELSE code,
      code }

\* Resolve the country name and return the record.  The map is read without
\* any lock: a read while FetchAllCountries is inside a map assignment is a
\* data race, which the Go runtime may abort ("fatal error: concurrent map
\* read and map write", the process exits) and which otherwise yields the
\* entry as it was or as it will be, or misses it.
Return ==
    /\ pc = "resolve"
    /\ IF countryResp.name = <<>> /\ bg.pc = "assign"
       THEN \/ /\ pc' = "fatal"
               /\ UNCHANGED ret
            \/ \E name \in RacingLookups(countryCode) :
                  /\ ret' = [data |-> [Country |-> name,
                                       CountryCode |-> countryCode,
                                       Species |-> speciesList],
                             err |-> FALSE, detail |-> ""]
                  /\ pc' = "returned"
       ELSE /\ ret' = [data |-> [Country |-> IF countryResp.name = <<>>
                                             THEN GetCountryName(countryCode)
                                             ELSE countryResp.name,
                                 CountryCode |-> countryCode,
                                 Species |-> speciesList],
                       err |-> FALSE, detail |-> ""]
            /\ pc' = "returned"
    /\ UNCHANGED << impl, countryCode, countryResp, i, idx, speciesList, mu, sem,
                    wg, tasks, CountryCodeToName >>
    /\ UNCHANGED nonClientVars

\* ------------------------------------------------------------------------
\* The goroutine of one qualifying assessment.
\* ------------------------------------------------------------------------

SetTask(t, newpc) == [tasks EXCEPT ![t].pc = newpc]

\* Mutant of TaskAcquire: the task goes on to its call without taking a slot.
TaskAcquireNoSlot(t) ==
    /\ tasks[t].pc = "acquire"
    /\ tasks' = SetTask(t, "call")
    /\ UNCHANGED << impl, pc, countryCode, countryResp, i, idx, speciesList, mu,
                    sem, wg, ret, CountryCodeToName >>
    /\ UNCHANGED nonClientVars

\* sem <- struct{}{}: blocks while the channel is full.
TaskAcquire(t) ==
    /\ tasks[t].pc = "acquire"
    /\ sem < SemCap
    /\ sem' = sem + 1
    /\ tasks' = SetTask(t, "call")
    /\ UNCHANGED << impl, pc, countryCode, countryResp, i, idx, speciesList, mu,
                    wg, ret, CountryCodeToName >>
    /\ UNCHANGED nonClientVars

\* GetSpeciesDetails: fewer than two parts is an error without a request.
ValidName(scientificName) == Len(Split(scientificName)) >= 2

\* One more taxonomy request completed for slot k.
CountTaxon(k) ==
    [reqs EXCEPT !.taxa = [j \in DOMAIN reqs.taxa \cup {k} |->
                              IF j = k
                              THEN (IF k \in DOMAIN reqs.taxa THEN reqs.taxa[k] ELSE 0) + 1
                              ELSE reqs.taxa[j]]]

\* Mutant of TaskDetailsFail: the failure path gives the slot back at once,
\* and the deferred receive gives it back again.
TaskDetailsFailEarlyRelease(t, kind) ==
    /\ tasks[t].pc = "call"
    /\ kind \in FailureKinds \cup {"invalid"}
    /\ (kind = "invalid") <=> ~ValidName(tasks[t].a.TaxonScientificName)
    /\ reqs' = IF kind = "invalid" THEN reqs ELSE CountTaxon(tasks[t].idx)
    /\ sem' = sem - 1
    /\ tasks' = [tasks EXCEPT ![t].pc = "lock",
                              ![t].res = [details |-> Nil, err |-> TRUE]]
    /\ UNCHANGED << impl, pc, countryCode, countryResp, i, idx, speciesList, mu,
                    wg, ret, CountryCodeToName >>
    /\ UNCHANGED << scraperVars, fnVars, serverVars >>

\* GetSpeciesDetails returns an error: at once for a name of fewer than two
\* parts, else after its one request failed.
TaskDetailsFail(t, kind) ==
    /\ tasks[t].pc = "call"
    /\ kind \in FailureKinds \cup {"invalid"}
    /\ (kind = "invalid") <=> ~ValidName(tasks[t].a.TaxonScientificName)
    /\ reqs' = IF kind = "invalid" THEN reqs ELSE CountTaxon(tasks[t].idx)
    /\ tasks' = [tasks EXCEPT ![t].pc = "lock",
                              ![t].res = [details |-> Nil, err |-> TRUE]]
    /\ UNCHANGED << impl, pc, countryCode, countryResp, i, idx, speciesList, mu,
                    sem, wg, ret, CountryCodeToName >>
    /\ UNCHANGED << scraperVars, fnVars, serverVars >>

\* GetSpeciesDetails returns the decoded taxon.
TaskDetailsOk(t, taxon) ==
    /\ tasks[t].pc = "call"
    /\ ValidName(tasks[t].a.TaxonScientificName)
    /\ reqs' = CountTaxon(tasks[t].idx)
    /\ tasks' = [tasks EXCEPT ![t].pc = "lock",
                              ![t].res = [details |-> taxon, err |-> FALSE]]
    /\ UNCHANGED << impl, pc, countryCode, countryResp, i, idx, speciesList, mu,
                    sem, wg, ret, CountryCodeToName >>
    /\ UNCHANGED << scraperVars, fnVars, serverVars >>

\* mu.Lock() of the task.
TaskLock(t) ==
    /\ tasks[t].pc = "lock"
    /\ mu = Unlocked
    /\ mu' = t
    /\ tasks' = SetTask(t, "write")
    /\ UNCHANGED << impl, pc, countryCode, countryResp, i, idx, speciesList, sem,
                    wg, ret, CountryCodeToName >>
    /\ UNCHANGED nonClientVars

\* Mutant of TaskWrite: the species goes into the first slot still empty
\* (results collected in completion order) instead of slot idx.
TaskWriteCompletionOrder(t) ==
    /\ tasks[t].pc = "write"
    /\ LET free == { k \in DOMAIN speciesList : speciesList[k].Status = "" }
           k0   == CHOOSE k \in free : \A j \in free : k <= j
       IN  speciesList' = [speciesList EXCEPT ![k0] =
                              IF impl = "dummy"
                              THEN BuildSpeciesUrl(tasks[t].a, tasks[t].res)
                              ELSE BuildSpecies(tasks[t].a, tasks[t].res)]
    /\ mu' = Unlocked
    /\ tasks' = SetTask(t, "release")
    /\ UNCHANGED << impl, pc, countryCode, countryResp, i, idx, sem, wg, ret,
                    CountryCodeToName >>
    /\ UNCHANGED nonClientVars

\* Build the Species, store it in the task's slot; deferred mu.Unlock().
TaskWrite(t) ==
    /\ tasks[t].pc = "write"
    /\ speciesList' = [speciesList EXCEPT ![tasks[t].idx] =
                          IF impl = "dummy"
                          THEN BuildSpeciesUrl(tasks[t].a, tasks[t].res)
                          ELSE BuildSpecies(tasks[t].a, tasks[t].res)]
    /\ mu' = Unlocked
    /\ tasks' = SetTask(t, "release")
    /\ UNCHANGED << impl, pc, countryCode, countryResp, i, idx, sem, wg, ret,
                    CountryCodeToName >>
    /\ UNCHANGED nonClientVars

\* Mutant of TaskRelease: the slot of the semaphore is never given back.
TaskReleaseKeepsSlot(t) ==
    /\ tasks[t].pc = "release"
    /\ tasks' = SetTask(t, "finish")
    /\ UNCHANGED << impl, pc, countryCode, countryResp, i, idx, speciesList, mu,
                    sem, wg, ret, CountryCodeToName >>
    /\ UNCHANGED nonClientVars

\* Deferred <-sem.
TaskRelease(t) ==
    /\ tasks[t].pc = "release"
    /\ sem' = sem - 1
    /\ tasks' = SetTask(t, "finish")
    /\ UNCHANGED << impl, pc, countryCode, countryResp, i, idx, speciesList, mu,
                    wg, ret, CountryCodeToName >>
    /\ UNCHANGED nonClientVars

\* Deferred wg.Done().
TaskDone(t) ==
    /\ tasks[t].pc = "finish"
    /\ wg' = wg - 1
    /\ tasks' = SetTask(t, "done")
    /\ UNCHANGED << impl, pc, countryCode, countryResp, i, idx, speciesList, mu,
                    sem, ret, CountryCodeToName >>
    /\ UNCHANGED nonClientVars

Next ==
    \/ \E code \in Codes : Invoke(code)
    \/ \E kind \in FailureKinds : GetFails(kind)
    \/ \E p \in CountryPayloads : GetDecodes(p)
    \/ LoopSkip
    \/ LoopLock
    \/ LoopAppend
    \/ LoopSpawn
    \/ LoopEnd
    \/ Wait
    \/ Return
    \/ \E t \in DOMAIN tasks : TaskAcquire(t)
    \/ \E t \in DOMAIN tasks, kind \in FailureKinds \cup {"invalid"} : TaskDetailsFail(t, kind)
    \/ \E t \in DOMAIN tasks, taxon \in TaxonPayloads : TaskDetailsOk(t, taxon)
    \/ \E t \in DOMAIN tasks : TaskLock(t)
    \/ \E t \in DOMAIN tasks : TaskWrite(t)
    \/ \E t \in DOMAIN tasks : TaskRelease(t)
    \/ \E t \in DOMAIN tasks : TaskDone(t)

Spec == Init /\ [][Next]_vars

\* ------------------------------------------------------------------------
\* Properties of the fan-out in Client.GetSpeciesByCountry.
\* ------------------------------------------------------------------------

\* The tasks whose GetSpeciesDetails call is in progress.
InFlight == { t \in DOMAIN tasks : tasks[t].pc = "call" }

\* GetSpeciesByCountry decoded an assessment list (it did not take the
\* getDummyData shortcut and the /countries/{code} request did not fail).
Decoded == i > 0

\* The assessments of the decoded response that pass isEndangered, in order.
Qualifying ==
    SelectSeq(countryResp.assessments,
              LAMBDA a : a.RedListCategoryCode \in {"CR", "EN", "VU"})

ReturnedRecord == pc = "returned" /\ ~ret.err

\* C1: in every reachable state the GetSpeciesDetails calls in flight are at
\* most as many as the semaphore has slots, and each of them holds a slot it
\* acquired before: the calls in flight never outnumber the tokens in the
\* channel, and the tokens never outnumber the capacity.
C1_ConcurrencyCeiling ==
    /\ Cardinality(InFlight) <= sem
    /\ sem <= SemCap

\* C1 witness: every slot is taken by a call in flight and a further task is
\* blocked on the semaphore.
C1_Witness ==
    /\ Cardinality(InFlight) = SemCap
    /\ \E t \in DOMAIN tasks : tasks[t].pc = "acquire"

\* A slot no task has written yet.
IsZero(sp) == sp.Status = "" /\ sp.Name = <<>> /\ sp.ScientificName = <<>>

\* C2: whatever the interleaving and the completion order, a slot k that has
\* been written holds the scientific name and the status of the k-th
\* qualifying assessment of the upstream response, and so does species k of
\* the returned record.
C2_DiscoveryOrder ==
    /\ \A k \in DOMAIN speciesList :
          ~IsZero(speciesList[k]) =>
              /\ k <= Len(Qualifying)
              /\ speciesList[k].ScientificName = Qualifying[k].TaxonScientificName
              /\ speciesList[k].Status = mapCategory(Qualifying[k].RedListCategoryCode)
    /\ (ReturnedRecord /\ Decoded) =>
          /\ Len(ret.data.Species) <= Len(Qualifying)
          /\ \A k \in DOMAIN ret.data.Species :
                /\ ret.data.Species[k].ScientificName = Qualifying[k].TaxonScientificName
                /\ ret.data.Species[k].Status = mapCategory(Qualifying[k].RedListCategoryCode)

\* C2 witness: the second task has stored its species (of another name than
\* the first task's) while the first task has not even acquired its slot:
\* completion order differs from dispatch order.
C2_Witness ==
    /\ Len(tasks) >= 2
    /\ tasks[1].pc = "acquire"
    /\ tasks[2].pc = "done"
    /\ tasks[1].a.TaxonScientificName # tasks[2].a.TaxonScientificName
    /\ ~IsZero(speciesList[2])
    /\ IsZero(speciesList[1])

\* The record returned after such a run lists two different species.
C2_ReturnedTwo ==
    /\ ReturnedRecord /\ Decoded
    /\ Len(ret.data.Species) >= 2
    /\ ret.data.Species[1].ScientificName # ret.data.Species[2].ScientificName

\* C7: GetSpeciesByCountry is past wg.Wait() only when every task it started
\* has finished (none runs or waits for a slot), every slot has a task, and
\* the list it returns has no slot left unwritten.
C7_JoinBeforeReturn ==
    (Decoded /\ pc \in {"resolve", "returned"}) =>
        /\ Len(tasks) = Len(speciesList)
        /\ \A t \in DOMAIN tasks : tasks[t].pc = "done"
        /\ sem = 0 /\ wg = 0 /\ mu = Unlocked
        /\ pc = "returned" =>
              /\ ret.data.Species = speciesList
              /\ \A k \in DOMAIN ret.data.Species : ~IsZero(ret.data.Species[k])

\* C7 witness: the call has returned a record after two tasks ran.
C7_Witness ==
    /\ ReturnedRecord /\ Decoded
    /\ Len(tasks) >= 2

\* The Species the code is to build for a task whose detail fetch failed.
FromAssessmentAlone(a) ==
    IF impl = "dummy"
    THEN [Name |-> a.TaxonScientificName, ScientificName |-> a.TaxonScientificName,
          Status |-> mapCategory(a.RedListCategoryCode), Kingdom |-> "",
          Phylum |-> "", Class |-> "", Order |-> "", Family |-> "", Url |-> a.Url]
    ELSE [Name |-> a.TaxonScientificName, ScientificName |-> a.TaxonScientificName,
          Status |-> mapCategory(a.RedListCategoryCode), Kingdom |-> "",
          Phylum |-> "", Class |-> "", Order |-> "", Family |-> ""]

\* C6: once the assessment list was decoded the call returns a record and no
\* error; the species of a task whose GetSpeciesDetails failed is built from
\* the assessment alone (scientific name, mapped status, empty ranks, name =
\* scientific name), and the species of the other tasks carry the ranks of
\* their own details.
C6_PartialFailure ==
    (Decoded /\ pc = "returned") =>
        /\ ~ret.err
        /\ \A t \in DOMAIN tasks :
              IF tasks[t].res.err
              THEN ret.data.Species[tasks[t].idx] = FromAssessmentAlone(tasks[t].a)
              ELSE /\ ret.data.Species[tasks[t].idx].Kingdom = tasks[t].res.details.KingdomName
                   /\ ret.data.Species[tasks[t].idx].Family = tasks[t].res.details.FamilyName
                   /\ ret.data.Species[tasks[t].idx].ScientificName
                         = tasks[t].a.TaxonScientificName

\* C6 witness: a returned record in which one task's fetch failed for a valid
\* name and another task's fetch succeeded.
C6_Witness ==
    /\ Decoded /\ pc = "returned"
    /\ \E t, u \in DOMAIN tasks :
          /\ tasks[t].res.err
          /\ tasks[t].a.TaxonScientificName # <<>>
          /\ ~tasks[u].res.err

\* C4 (as claimed): every species of every returned record has one of the
\* three status labels of CR, EN and VU.
C4_OnlyThreatenedLabels ==
    ReturnedRecord =>
        \A k \in DOMAIN ret.data.Species :
            ret.data.Species[k].Status \in
                {"Critically Endangered", "Endangered", "Vulnerable"}

\* ------------------------------------------------------------------------
\* The scraper package: tables and pure functions.
\* ------------------------------------------------------------------------

\* var countryCodeToName of the scraper package, as <<code, name>> pairs.
countryCodeToName ==
    { << <<"U", "S">>, <<"United", " ", "States">> >>,
      << <<"C", "A">>, <<"Canada">> >>,
      << <<"M", "X">>, <<"Mexico">> >>,
      << <<"B", "R">>, <<"Brazil">> >>,
      << <<"A", "R">>, <<"Argentina">> >>,
      << <<"G", "B">>, <<"United", " ", "Kingdom">> >>,
      << <<"F", "R">>, <<"France">> >>,
      << <<"D", "E">>, <<"Germany">> >>,
      << <<"I", "T">>, <<"Italy">> >>,
      << <<"E", "S">>, <<"Spain">> >>,
      << <<"P", "T">>, <<"Portugal">> >>,
      << <<"C", "N">>, <<"China">> >>,
      << <<"J", "P">>, <<"Japan">> >>,
      << <<"I", "N">>, <<"India">> >>,
      << <<"A", "U">>, <<"Australia">> >>,
      << <<"N", "Z">>, <<"New", " ", "Zealand">> >>,
      << <<"Z", "A">>, <<"South", " ", "Africa">> >>,
      << <<"K", "E">>, <<"Kenya">> >>,
      << <<"T", "Z">>, <<"Tanzania">> >>,
      << <<"E", "G">>, <<"Egypt">> >>,
      << <<"N", "G">>, <<"Nigeria">> >>,
      << <<"R", "U">>, <<"Russia">> >>,
      << <<"I", "D">>, <<"Indonesia">> >>,
      << <<"M", "Y">>, <<"Malaysia">> >>,
      << <<"T", "H">>, <<"Thailand">> >>,
      << <<"V", "N">>, <<"Vietnam">> >>,
      << <<"P", "H">>, <<"Philippines">> >>,
      << <<"K", "R">>, <<"South", " ", "Korea">> >>,
      << <<"P", "K">>, <<"Pakistan">> >>,
      << <<"B", "D">>, <<"Bangladesh">> >>,
      << <<"C", "O">>, <<"Colombia">> >>,
      << <<"P", "E">>, <<"Peru">> >>,
      << <<"V", "E">>, <<"Venezuela">> >>,
      << <<"C", "L">>, <<"Chile">> >>,
      << <<"E", "C">>, <<"Ecuador">> >>,
      << <<"B", "O">>, <<"Bolivia">> >>,
      << <<"P", "Y">>, <<"Paraguay">> >>,
      << <<"U", "Y">>, <<"Uruguay">> >>,
      << <<"C", "R">>, <<"Costa", " ", "Rica">> >>,
      << <<"P", "A">>, <<"Panama">> >>,
      << <<"C", "U">>, <<"Cuba">> >>,
      << <<"G", "T">>, <<"Guatemala">> >>,
      << <<"H", "N">>, <<"Honduras">> >>,
      << <<"N", "I">>, <<"Nicaragua">> >>,
      << <<"S", "V">>, <<"El", " ", "Salvador">> >>,
      << <<"B", "Z">>, <<"Belize">> >>,
      << <<"M", "G">>, <<"Madagascar">> >>,
      << <<"M", "W">>, <<"Malawi">> >>,
      << <<"Z", "M">>, <<"Zambia">> >>,
      << <<"Z", "W">>, <<"Zimbabwe">> >>,
      << <<"B", "W">>, <<"Botswana">> >>,
      << <<"N", "A">>, <<"Namibia">> >>,
      << <<"A", "O">>, <<"Angola">> >>,
      << <<"M", "Z">>, <<"Mozambique">> >>,
      << <<"C", "D">>, <<"Democratic", " ", "Republic", " ", "of", " ", "the", " ", "Congo">> >>,
      << <<"C", "G">>, <<"Republic", " ", "of", " ", "the", " ", "Congo">> >>,
      << <<"G", "A">>, <<"Gabon">> >>,
      << <<"C", "M">>, <<"Cameroon">> >>,
      << <<"G", "H">>, <<"Ghana">> >>,
      << <<"C", "I">>, <<"Ivory", " ", "Coast">> >>,
      << <<"S", "N">>, <<"Senegal">> >>,
      << <<"M", "L">>, <<"Mali">> >>,
      << <<"N", "E">>, <<"Niger">> >>,
      << <<"T", "D">>, <<"Chad">> >>,
      << <<"S", "D">>, <<"Sudan">> >>,
      << <<"E", "T">>, <<"Ethiopia">> >>,
      << <<"S", "O">>, <<"Somalia">> >>,
      << <<"U", "G">>, <<"Uganda">> >>,
      << <<"R", "W">>, <<"Rwanda">> >>,
      << <<"B", "I">>, <<"Burundi">> >>,
      << <<"N", "P">>, <<"Nepal">> >>,
      << <<"B", "T">>, <<"Bhutan">> >>,
      << <<"L", "K">>, <<"Sri", " ", "Lanka">> >>,
      << <<"M", "M">>, <<"Myanmar">> >>,
      << <<"L", "A">>, <<"Laos">> >>,
      << <<"K", "H">>, <<"Cambodia">> >>,
      << <<"S", "G">>, <<"Singapore">> >>,
      << <<"B", "N">>, <<"Brunei">> >>,
      << <<"P", "G">>, <<"Papua", " ", "New", " ", "Guinea">> >>,
      << <<"F", "J">>, <<"Fiji">> >>,
      << <<"N", "O">>, <<"Norway">> >>,
      << <<"S", "E">>, <<"Sweden">> >>,
      << <<"F", "I">>, <<"Finland">> >>,
      << <<"D", "K">>, <<"Denmark">> >>,
      << <<"I", "S">>, <<"Iceland">> >>,
      << <<"I", "E">>, <<"Ireland">> >>,
      << <<"N", "L">>, <<"Netherlands">> >>,
      << <<"B", "E">>, <<"Belgium">> >>,
      << <<"L", "U">>, <<"Luxembourg">> >>,
      << <<"C", "H">>, <<"Switzerland">> >>,
      << <<"A", "T">>, <<"Austria">> >>,
      << <<"P", "L">>, <<"Poland">> >>,
      << <<"C", "Z">>, <<"Czech", " ", "Republic">> >>,
      << <<"S", "K">>, <<"Slovakia">> >>,
      << <<"H", "U">>, <<"Hungary">> >>,
      << <<"R", "O">>, <<"Romania">> >>,
      << <<"B", "G">>, <<"Bulgaria">> >>,
      << <<"G", "R">>, <<"Greece">> >>,
      << <<"T", "R">>, <<"Turkey">> >>,
      << <<"U", "A">>, <<"Ukraine">> >>,
      << <<"B", "Y">>, <<"Belarus">> >>,
      << <<"R", "S">>, <<"Serbia">> >>,
      << <<"H", "R">>, <<"Croatia">> >>,
      << <<"S", "I">>, <<"Slovenia">> >>,
      << <<"B", "A">>, <<"Bosnia", " ", "and", " ", "Herzegovina">> >>,
      << <<"M", "K">>, <<"North", " ", "Macedonia">> >>,
      << <<"A", "L">>, <<"Albania">> >>,
      << <<"M", "E">>, <<"Montenegro">> >>,
      << <<"X", "K">>, <<"Kosovo">> >>,
      << <<"M", "D">>, <<"Moldova">> >>,
      << <<"E", "E">>, <<"Estonia">> >>,
      << <<"L", "V">>, <<"Latvia">> >>,
      << <<"L", "T">>, <<"Lithuania">> >> }

\* sampleDataByRegion of getSampleData, as <<code, species>> pairs.
sampleDataByRegion ==
    { << <<"U", "S">>,
      << [Name |-> <<"California", " ", "Condor">>,
         ScientificName |-> <<"Gymnogyps", " ", "californianus">>,
         Status |-> <<"Critically", " ", "Endangered">>, Population |-> "~500",
         Habitat |-> "Mountains and forests",
         Threats |-> "Habitat loss, lead poisoning"],
        [Name |-> <<"Florida", " ", "Panther">>,
         ScientificName |-> <<"Puma", " ", "concolor", " ", "coryi">>,
         Status |-> <<"Endangered">>, Population |-> "~200",
         Habitat |-> "Swamps and forests",
         Threats |-> "Habitat fragmentation, vehicle collisions"],
        [Name |-> <<"Hawaiian", " ", "Monk", " ", "Seal">>,
         ScientificName |-> <<"Neomonachus", " ", "schauinslandi">>,
         Status |-> <<"Endangered">>, Population |-> "~1,400",
         Habitat |-> "Hawaiian Islands",
         Threats |-> "Climate change, marine debris"],
        [Name |-> <<"Red", " ", "Wolf">>,
         ScientificName |-> <<"Canis", " ", "rufus">>,
         Status |-> <<"Critically", " ", "Endangered">>, Population |-> "~20 in wild",
         Habitat |-> "Forests and wetlands",
         Threats |-> "Hybridization, habitat loss"],
        [Name |-> <<"Ocelot">>,
         ScientificName |-> <<"Leopardus", " ", "pardalis">>,
         Status |-> <<"Endangered">>, Population |-> "~100 in US",
         Habitat |-> "Dense thorny scrubland",
         Threats |-> "Habitat loss, vehicle strikes"] >> >>,
      << <<"B", "R">>,
      << [Name |-> <<"Golden", " ", "Lion", " ", "Tamarin">>,
         ScientificName |-> <<"Leontopithecus", " ", "rosalia">>,
         Status |-> <<"Endangered">>, Population |-> "~3,200",
         Habitat |-> "Atlantic Forest",
         Threats |-> "Deforestation, illegal pet trade"],
        [Name |-> <<"Hyacinth", " ", "Macaw">>,
         ScientificName |-> <<"Anodorhynchus", " ", "hyacinthinus">>,
         Status |-> <<"Vulnerable">>, Population |-> "~6,500",
         Habitat |-> "Pantanal wetlands",
         Threats |-> "Illegal trade, habitat loss"],
        [Name |-> <<"Jaguar">>,
         ScientificName |-> <<"Panthera", " ", "onca">>,
         Status |-> <<"Near", " ", "Threatened">>, Population |-> "~170,000",
         Habitat |-> "Rainforests and wetlands",
         Threats |-> "Deforestation, poaching"],
        [Name |-> <<"Amazon", " ", "River", " ", "Dolphin">>,
         ScientificName |-> <<"Inia", " ", "geoffrensis">>,
         Status |-> <<"Endangered">>, Population |-> "Unknown",
         Habitat |-> "Amazon River system",
         Threats |-> "Dam construction, pollution"],
        [Name |-> <<"Black", " ", "Lion", " ", "Tamarin">>,
         ScientificName |-> <<"Leontopithecus", " ", "chrysopygus">>,
         Status |-> <<"Endangered">>, Population |-> "~1,000",
         Habitat |-> "Atlantic Forest",
         Threats |-> "Habitat fragmentation"] >> >>,
      << <<"C", "N">>,
      << [Name |-> <<"Giant", " ", "Panda">>,
         ScientificName |-> <<"Ailuropoda", " ", "melanoleuca">>,
         Status |-> <<"Vulnerable">>, Population |-> "~1,800",
         Habitat |-> "Mountain bamboo forests",
         Threats |-> "Habitat loss, low birth rate"],
        [Name |-> <<"South", " ", "China", " ", "Tiger">>,
         ScientificName |-> <<"Panthera", " ", "tigris", " ", "amoyensis">>,
         Status |-> <<"Critically", " ", "Endangered">>, Population |-> "~0 in wild",
         Habitat |-> "Temperate forests",
         Threats |-> "Poaching, habitat loss"],
        [Name |-> <<"Chinese", " ", "Alligator">>,
         ScientificName |-> <<"Alligator", " ", "sinensis">>,
         Status |-> <<"Critically", " ", "Endangered">>, Population |-> "~150 in wild",
         Habitat |-> "Yangtze River wetlands",
         Threats |-> "Habitat destruction, pollution"],
        [Name |-> <<"Yangtze", " ", "Finless", " ", "Porpoise">>,
         ScientificName |-> <<"Neophocaena", " ", "asiaeorientalis">>,
         Status |-> <<"Critically", " ", "Endangered">>, Population |-> "~1,000",
         Habitat |-> "Yangtze River",
         Threats |-> "Pollution, boat traffic"],
        [Name |-> <<"Crested", " ", "Ibis">>,
         ScientificName |-> <<"Nipponia", " ", "nippon">>,
         Status |-> <<"Endangered">>, Population |-> "~2,600",
         Habitat |-> "Wetlands and rice paddies",
         Threats |-> "Habitat loss, pesticides"] >> >>,
      << <<"I", "N">>,
      << [Name |-> <<"Bengal", " ", "Tiger">>,
         ScientificName |-> <<"Panthera", " ", "tigris", " ", "tigris">>,
         Status |-> <<"Endangered">>, Population |-> "~3,000",
         Habitat |-> "Forests and grasslands",
         Threats |-> "Poaching, habitat loss"],
        [Name |-> <<"Asian", " ", "Elephant">>,
         ScientificName |-> <<"Elephas", " ", "maximus">>,
         Status |-> <<"Endangered">>, Population |-> "~27,000 in India",
         Habitat |-> "Forests and grasslands",
         Threats |-> "Habitat fragmentation, human conflict"],
        [Name |-> <<"Indian", " ", "Rhinoceros">>,
         ScientificName |-> <<"Rhinoceros", " ", "unicornis">>,
         Status |-> <<"Vulnerable">>, Population |-> "~3,700",
         Habitat |-> "Grasslands and riverine areas",
         Threats |-> "Poaching, habitat loss"],
        [Name |-> <<"Ganges", " ", "River", " ", "Dolphin">>,
         ScientificName |-> <<"Platanista", " ", "gangetica">>,
         Status |-> <<"Endangered">>, Population |-> "~3,500",
         Habitat |-> "Ganges River system",
         Threats |-> "Pollution, dam construction"],
        [Name |-> <<"Snow", " ", "Leopard">>,
         ScientificName |-> <<"Panthera", " ", "uncia">>,
         Status |-> <<"Vulnerable">>, Population |-> "~500 in India",
         Habitat |-> "High mountain regions",
         Threats |-> "Poaching, climate change"] >> >>,
      << <<"A", "U">>,
      << [Name |-> <<"Koala">>,
         ScientificName |-> <<"Phascolarctos", " ", "cinereus">>,
         Status |-> <<"Vulnerable">>, Population |-> "~100,000",
         Habitat |-> "Eucalyptus forests",
         Threats |-> "Habitat loss, disease, bushfires"],
        [Name |-> <<"Numbat">>,
         ScientificName |-> <<"Myrmecobius", " ", "fasciatus">>,
         Status |-> <<"Endangered">>, Population |-> "~1,000",
         Habitat |-> "Eucalyptus woodlands",
         Threats |-> "Predation by foxes and cats"],
        [Name |-> <<"Leadbeater's", " ", "Possum">>,
         ScientificName |-> <<"Gymnobelideus", " ", "leadbeateri">>,
         Status |-> <<"Critically", " ", "Endangered">>, Population |-> "~1,500",
         Habitat |-> "Mountain ash forests",
         Threats |-> "Logging, bushfires"],
        [Name |-> <<"Northern", " ", "Hairy-nosed", " ", "Wombat">>,
         ScientificName |-> <<"Lasiorhinus", " ", "krefftii">>,
         Status |-> <<"Critically", " ", "Endangered">>, Population |-> "~300",
         Habitat |-> "Semi-arid grasslands",
         Threats |-> "Competition with cattle, drought"],
        [Name |-> <<"Tasmanian", " ", "Devil">>,
         ScientificName |-> <<"Sarcophilus", " ", "harrisii">>,
         Status |-> <<"Endangered">>, Population |-> "~25,000",
         Habitat |-> "Tasmanian forests",
         Threats |-> "Devil facial tumour disease"] >> >>,
      << <<"K", "E">>,
      << [Name |-> <<"Black", " ", "Rhinoceros">>,
         ScientificName |-> <<"Diceros", " ", "bicornis">>,
         Status |-> <<"Critically", " ", "Endangered">>, Population |-> "~750 in Kenya",
         Habitat |-> "Savannas and forests",
         Threats |-> "Poaching for horn"],
        [Name |-> <<"African", " ", "Wild", " ", "Dog">>,
         ScientificName |-> <<"Lycaon", " ", "pictus">>,
         Status |-> <<"Endangered">>, Population |-> "~600 in Kenya",
         Habitat |-> "Savannas and grasslands",
         Threats |-> "Habitat fragmentation, human conflict"],
        [Name |-> <<"Grevy's", " ", "Zebra">>,
         ScientificName |-> <<"Equus", " ", "grevyi">>,
         Status |-> <<"Endangered">>, Population |-> "~2,800",
         Habitat |-> "Semi-arid grasslands",
         Threats |-> "Habitat loss, competition with livestock"],
        [Name |-> <<"Hirola">>,
         ScientificName |-> <<"Beatragus", " ", "hunteri">>,
         Status |-> <<"Critically", " ", "Endangered">>, Population |-> "~500",
         Habitat |-> "Semi-arid grasslands",
         Threats |-> "Drought, habitat loss, disease"],
        [Name |-> <<"Mountain", " ", "Bongo">>,
         ScientificName |-> <<"Tragelaphus", " ", "eurycerus", " ", "isaaci">>,
         Status |-> <<"Critically", " ", "Endangered">>, Population |-> "~100 in wild",
         Habitat |-> "Mountain forests",
         Threats |-> "Poaching, habitat loss"] >> >>,
      << <<"M", "G">>,
      << [Name |-> <<"Aye-aye">>,
         ScientificName |-> <<"Daubentonia", " ", "madagascariensis">>,
         Status |-> <<"Endangered">>, Population |-> "Unknown",
         Habitat |-> "Rainforests",
         Threats |-> "Deforestation, persecution"],
        [Name |-> <<"Indri">>,
         ScientificName |-> <<"Indri", " ", "indri">>,
         Status |-> <<"Critically", " ", "Endangered">>, Population |-> "~10,000",
         Habitat |-> "Rainforests",
         Threats |-> "Habitat loss, hunting"],
        [Name |-> <<"Silky", " ", "Sifaka">>,
         ScientificName |-> <<"Propithecus", " ", "candidus">>,
         Status |-> <<"Critically", " ", "Endangered">>, Population |-> "~250",
         Habitat |-> "Mountain rainforests",
         Threats |-> "Habitat loss, hunting"],
        [Name |-> <<"Radiated", " ", "Tortoise">>,
         ScientificName |-> <<"Astrochelys", " ", "radiata">>,
         Status |-> <<"Critically", " ", "Endangered">>, Population |-> "Unknown",
         Habitat |-> "Spiny forests",
         Threats |-> "Illegal pet trade, habitat loss"],
        [Name |-> <<"Ploughshare", " ", "Tortoise">>,
         ScientificName |-> <<"Astrochelys", " ", "yniphora">>,
         Status |-> <<"Critically", " ", "Endangered">>, Population |-> "~500",
         Habitat |-> "Bamboo scrub",
         Threats |-> "Illegal pet trade"] >> >>,
      << <<"I", "D">>,
      << [Name |-> <<"Sumatran", " ", "Tiger">>,
         ScientificName |-> <<"Panthera", " ", "tigris", " ", "sumatrae">>,
         Status |-> <<"Critically", " ", "Endangered">>, Population |-> "~400",
         Habitat |-> "Tropical rainforests",
         Threats |-> "Poaching, deforestation"],
        [Name |-> <<"Sumatran", " ", "Orangutan">>,
         ScientificName |-> <<"Pongo", " ", "abelii">>,
         Status |-> <<"Critically", " ", "Endangered">>, Population |-> "~14,000",
         Habitat |-> "Tropical rainforests",
         Threats |-> "Habitat loss, illegal trade"],
        [Name |-> <<"Javan", " ", "Rhinoceros">>,
         ScientificName |-> <<"Rhinoceros", " ", "sondaicus">>,
         Status |-> <<"Critically", " ", "Endangered">>, Population |-> "~70",
         Habitat |-> "Tropical rainforests",
         Threats |-> "Poaching, habitat loss"],
        [Name |-> <<"Sumatran", " ", "Rhinoceros">>,
         ScientificName |-> <<"Dicerorhinus", " ", "sumatrensis">>,
         Status |-> <<"Critically", " ", "Endangered">>, Population |-> "~80",
         Habitat |-> "Tropical rainforests",
         Threats |-> "Poaching, habitat loss"],
        [Name |-> <<"Komodo", " ", "Dragon">>,
         ScientificName |-> <<"Varanus", " ", "komodoensis">>,
         Status |-> <<"Endangered">>, Population |-> "~3,000",
         Habitat |-> "Islands of Indonesia",
         Threats |-> "Habitat loss, climate change"] >> >> }

\* GetCountryName of the scraper package.
ScraperGetCountryName(code) ==
    IF \E e \in countryCodeToName : e[1] = ToUpper(code)
    THEN (CHOOSE e \in countryCodeToName : e[1] = ToUpper(code))[2]
    ELSE code

\* "Default data for countries without specific information".
DefaultSample ==
    << [Name |-> <<"Data", " ", "unavailable">>, ScientificName |-> <<"N/A">>,
        Status |-> <<"Please", " ", "check", " ", "IUCN", " ", "Red", " ", "List">>,
        Population |-> "Unknown", Habitat |-> "Various",
        Threats |-> "Multiple factors"] >>

getSampleData(code) ==
    IF \E e \in sampleDataByRegion : e[1] = code
    THEN (CHOOSE e \in sampleDataByRegion : e[1] = code)[2]
    ELSE DefaultSample

RECURSIVE TrimLeft(_)
TrimLeft(s) ==
    IF s # <<>> /\ Head(s) = " " THEN TrimLeft(Tail(s)) ELSE s

RECURSIVE TrimRight(_)
TrimRight(s) ==
    IF s # <<>> /\ s[Len(s)] = " " THEN TrimRight(SubSeq(s, 1, Len(s) - 1)) ELSE s

\* strings.TrimSpace.
TrimSpace(s) == TrimRight(TrimLeft(s))

\* len(species) < 20 in scrapeWikipedia.
WikiLimit == 20

\* The callback of scrapeWikipedia on row number k (k = 1 is i == 0, the
\* header row); a row is the sequence of the texts of its td cells.
WikiRow(species, k, cells) ==
    IF k = 1 THEN species
    ELSE IF Len(cells) >= 2
              /\ TrimSpace(cells[1]) # <<>>
              /\ Len(species) < WikiLimit
         THEN Append(species,
                     [Name |-> TrimSpace(cells[1]),
                      ScientificName |-> TrimSpace(cells[2]),
                      Status |-> IF Len(cells) >= 3 THEN TrimSpace(cells[3])
                                 ELSE <<"Endangered">>,
                      Population |-> "", Habitat |-> "", Threats |-> ""])
         ELSE species

RECURSIVE WikiRows(_, _, _)
WikiRows(rows, k, species) ==
    IF k > Len(rows) THEN species
    ELSE WikiRows(rows, k + 1, WikiRow(species, k, rows[k]))

\* scrapeWikipedia on a page that was fetched and parsed: the species of its
\* rows, or the error "no species found".
scrapeWikipedia(rows) ==
    LET species == WikiRows(rows, 1, <<>>)
    IN  IF Len(species) = 0
        THEN [species |-> <<>>, err |-> TRUE]
        ELSE [species |-> species, err |-> FALSE]

\* Ticks of the model's clock in one second, the resolution of RFC3339.
TicksPerSecond == 2

\* time.Now().Format(time.RFC3339): the time cut to whole seconds.
FormatRFC3339(t) == t \div TicksPerSecond

\* Mutant of scrapeSpeciesData: no fallback to the sample data.
scrapeSpeciesDataNoFallback(code, wiki, t) ==
    [Country     |-> ScraperGetCountryName(code),
     CountryCode |-> code,
     Species     |-> wiki.species,
     LastUpdated |-> FormatRFC3339(t)]

\* scrapeSpeciesData: wiki is what scrapeWikipedia returned, t the time.
scrapeSpeciesData(code, wiki, t) ==
    [Country     |-> ScraperGetCountryName(code),
     CountryCode |-> code,
     Species     |-> IF wiki.err THEN getSampleData(code) ELSE wiki.species,
     LastUpdated |-> FormatRFC3339(t)]

\* ------------------------------------------------------------------------
\* The scraper's inputs.
\* ------------------------------------------------------------------------

ScraperCodes == { <<"u", "s">>, <<"U", "S">>, <<"z", "z">> }

HeaderRow == <<>>

GoodRow ==
    << <<" ", "Red", " ", "Wolf", " ">>, <<"Canis", " ", "rufus">>,
       <<"Critically", " ", "Endangered">> >>

TwoCellRow == << <<"Ocelot">>, <<"Leopardus", " ", "pardalis", " ">> >>

NamelessRow == << <<" ">>, <<"Puma", " ", "concolor">>, <<"Endangered">> >>

OneCellRow == << <<"Notes">> >>

\* The parsed pages: their table rows.
WikiPages ==
    { <<>>,
      << HeaderRow >>,
      << GoodRow >>,
      << HeaderRow, NamelessRow, OneCellRow >>,
      << HeaderRow, GoodRow, NamelessRow, TwoCellRow >>,
      [k \in 1..(WikiLimit + 3) |-> IF k = 1 THEN HeaderRow
                                    ELSE IF k % 2 = 0 THEN GoodRow ELSE TwoCellRow] }

\* Calls of Scraper.GetSpeciesByCountry in one behaviour.
MaxCalls == 3

\* Last tick of the clock.
MaxClock == 2

\* ------------------------------------------------------------------------
\* Scraper.GetSpeciesByCountry.
\* ------------------------------------------------------------------------

ScIdle == [pc |-> "idle", arg |-> <<>>, countryCode |-> <<>>, data |-> Nil,
           wiki |-> Nil]

\* A Scraper as NewScraper leaves it, used by one goroutine.
InitScraper ==
    /\ impl = "scraper"
    /\ ClientIdle
    /\ FnIdle
    /\ cache = <<>>
    /\ cacheMutex = [readers |-> 0, writer |-> FALSE]
    /\ callers = {1}
    /\ sc = [c \in {1} |-> ScIdle]
    /\ now = 0
    /\ hist = <<>>
    /\ reqs = NoReqs
    /\ bg = NoBg
    /\ h = HandlerIdle
    /\ fetchAlls = 0
    /\ par = NoPar

Running == { c \in callers : sc[c].pc # "idle" }

\* Entry: uppercase the code.
ScInvoke(c, code) ==
    /\ impl = "scraper"
    /\ sc[c].pc = "idle"
    /\ Len(hist) + Cardinality(Running) < MaxCalls
    /\ sc' = [sc EXCEPT ![c] = [ScIdle EXCEPT !.pc = "rlock", !.arg = code,
                                              !.countryCode = ToUpper(code)]]
    /\ UNCHANGED << impl, clientVars, fnVars, reqs, serverVars, cache, cacheMutex, callers, now, hist >>

\* s.cacheMutex.RLock().
ScRLock(c) ==
    /\ sc[c].pc = "rlock"
    /\ ~cacheMutex.writer
    /\ cacheMutex' = [cacheMutex EXCEPT !.readers = @ + 1]
    /\ sc' = [sc EXCEPT ![c].pc = "read"]
    /\ UNCHANGED << impl, clientVars, fnVars, reqs, serverVars, cache, callers, now, hist >>

\* Mutant of ScRead: the lookup never finds the entry.
ScReadAlwaysMiss(c) ==
    /\ sc[c].pc = "read"
    /\ cacheMutex' = [cacheMutex EXCEPT !.readers = @ - 1]
    /\ sc' = [sc EXCEPT ![c].pc = "scrape"]
    /\ UNCHANGED << impl, clientVars, fnVars, reqs, serverVars, cache, callers, now, hist >>

\* Mutant of ScRead: a miss keeps the cache locked, exclusively, while the
\* entry is computed.
ScReadLocksForScrape(c) ==
    /\ sc[c].pc = "read"
    /\ IF sc[c].countryCode \in DOMAIN cache
       THEN /\ cacheMutex' = [cacheMutex EXCEPT !.readers = @ - 1]
            /\ hist' = Append(hist, [arg |-> sc[c].arg, code |-> sc[c].countryCode,
                                     data |-> cache[sc[c].countryCode],
                                     scraped |-> FALSE, at |-> now])
            /\ sc' = [sc EXCEPT ![c] = ScIdle]
       ELSE /\ cacheMutex' = [readers |-> cacheMutex.readers - 1, writer |-> TRUE]
            /\ sc' = [sc EXCEPT ![c].pc = "scrape"]
            /\ UNCHANGED hist
    /\ UNCHANGED << impl, clientVars, fnVars, reqs, serverVars, cache, callers, now >>

\* Look the code up; RUnlock(); a hit returns the cached record.
ScRead(c) ==
    /\ sc[c].pc = "read"
    /\ cacheMutex' = [cacheMutex EXCEPT !.readers = @ - 1]
    /\ IF sc[c].countryCode \in DOMAIN cache
       THEN /\ hist' = Append(hist, [arg |-> sc[c].arg, code |-> sc[c].countryCode,
                                     data |-> cache[sc[c].countryCode],
                                     scraped |-> FALSE, at |-> now])
            /\ sc' = [sc EXCEPT ![c] = ScIdle]
       ELSE /\ sc' = [sc EXCEPT ![c].pc = "scrape"]
            /\ UNCHANGED hist
    /\ UNCHANGED << impl, clientVars, fnVars, reqs, serverVars, cache, callers, now >>

\* scrapeSpeciesData when the page cannot be fetched or parsed.
ScScrapeFails(c, kind) ==
    /\ sc[c].pc = "scrape"
    /\ kind \in FailureKinds
    /\ sc' = [sc EXCEPT ![c].pc = "wlock",
                        ![c].wiki = [species |-> <<>>, err |-> TRUE],
                        ![c].data = scrapeSpeciesData(sc[c].countryCode,
                                        [species |-> <<>>, err |-> TRUE], now)]
    /\ UNCHANGED << impl, clientVars, fnVars, reqs, serverVars, cache, cacheMutex, callers, now, hist >>

\* scrapeSpeciesData when the page arrives.
ScScrapePage(c, rows) ==
    /\ sc[c].pc = "scrape"
    /\ sc' = [sc EXCEPT ![c].pc = "wlock",
                        ![c].wiki = scrapeWikipedia(rows),
                        ![c].data = scrapeSpeciesData(sc[c].countryCode,
                                        scrapeWikipedia(rows), now)]
    /\ UNCHANGED << impl, clientVars, fnVars, reqs, serverVars, cache, cacheMutex, callers, now, hist >>

\* Mutant of ScWLock: the writer does not wait for the readers to leave.
ScWLockBesideReaders(c) ==
    /\ sc[c].pc = "wlock"
    /\ ~cacheMutex.writer
    /\ cacheMutex' = [cacheMutex EXCEPT !.writer = TRUE]
    /\ sc' = [sc EXCEPT ![c].pc = "store"]
    /\ UNCHANGED << impl, clientVars, fnVars, reqs, serverVars, cache, callers, now, hist >>

\* s.cacheMutex.Lock().
ScWLock(c) ==
    /\ sc[c].pc = "wlock"
    /\ ~cacheMutex.writer
    /\ cacheMutex.readers = 0
    /\ cacheMutex' = [cacheMutex EXCEPT !.writer = TRUE]
    /\ sc' = [sc EXCEPT ![c].pc = "store"]
    /\ UNCHANGED << impl, clientVars, fnVars, reqs, serverVars, cache, callers, now, hist >>

\* Mutant of ScStore: the cache keeps the newest record only.
ScStoreNewestOnly(c) ==
    /\ sc[c].pc = "store"
    /\ cache' = [k \in {sc[c].countryCode} |-> sc[c].data]
    /\ cacheMutex' = [cacheMutex EXCEPT !.writer = FALSE]
    /\ hist' = Append(hist, [arg |-> sc[c].arg, code |-> sc[c].countryCode,
                             data |-> sc[c].data, scraped |-> TRUE, at |-> now])
    /\ sc' = [sc EXCEPT ![c] = ScIdle]
    /\ UNCHANGED << impl, clientVars, fnVars, reqs, serverVars, callers, now >>

\* s.cache[countryCode] = data; Unlock(); return data.
ScStore(c) ==
    /\ sc[c].pc = "store"
    /\ cache' = [k \in DOMAIN cache \cup {sc[c].countryCode} |->
                    IF k = sc[c].countryCode THEN sc[c].data ELSE cache[k]]
    /\ cacheMutex' = [cacheMutex EXCEPT !.writer = FALSE]
    /\ hist' = Append(hist, [arg |-> sc[c].arg, code |-> sc[c].countryCode,
                             data |-> sc[c].data, scraped |-> TRUE, at |-> now])
    /\ sc' = [sc EXCEPT ![c] = ScIdle]
    /\ UNCHANGED << impl, clientVars, fnVars, reqs, serverVars, callers, now >>

\* Time passes.
Tick ==
    /\ impl = "scraper"
    /\ now < MaxClock
    /\ now' = now + 1
    /\ UNCHANGED << impl, clientVars, fnVars, reqs, serverVars, cache, cacheMutex, callers, sc, hist >>

NextScraper ==
    \/ \E c \in callers, code \in ScraperCodes : ScInvoke(c, code)
    \/ \E c \in callers : ScRLock(c)
    \/ \E c \in callers : ScRead(c)
    \/ \E c \in callers, kind \in FailureKinds : ScScrapeFails(c, kind)
    \/ \E c \in callers, rows \in WikiPages : ScScrapePage(c, rows)
    \/ \E c \in callers : ScWLock(c)
    \/ \E c \in callers : ScStore(c)
    \/ Tick

SpecScraper == InitScraper /\ [][NextScraper]_vars

\* C10: of two calls for the same country code (after uppercasing) made one
\* after the other, the later returns the record of the earlier, LastUpdated
\* included, and does not scrape.
C10_SecondCallFromCache ==
    \A j, k \in DOMAIN hist :
        (j < k /\ hist[j].code = hist[k].code) =>
            /\ hist[k].data = hist[j].data
            /\ ~hist[k].scraped

\* C10 witness: a second call for a code returned after the clock had moved
\* on to another second than the one the record was made in.
C10_Witness ==
    \E j, k \in DOMAIN hist :
        /\ j < k
        /\ hist[j].code = hist[k].code
        /\ hist[j].arg # hist[k].arg
        /\ FormatRFC3339(hist[k].at) # hist[j].data.LastUpdated

\* ------------------------------------------------------------------------
\* One Scraper shared by the goroutines of concurrent requests.
\* ------------------------------------------------------------------------

\* The goroutines (of two requests served at once) that call the Scraper.
ConcCallers == {1, 2}

\* A Scraper as NewScraper leaves it, called by the goroutines of ConcCallers.
InitConc ==
    /\ impl = "scraper"
    /\ ClientIdle
    /\ FnIdle
    /\ cache = <<>>
    /\ cacheMutex = [readers |-> 0, writer |-> FALSE]
    /\ callers = ConcCallers
    /\ sc = [c \in ConcCallers |-> ScIdle]
    /\ now = 0
    /\ hist = <<>>
    /\ reqs = NoReqs
    /\ bg = NoBg
    /\ h = HandlerIdle
    /\ fetchAlls = 0
    /\ par = NoPar

\* The pages the concurrent calls are answered with: two that parse to
\* different species lists (failures give the sample data).
ConcPages ==
    { << GoodRow >>,
      << HeaderRow, GoodRow, NamelessRow, TwoCellRow >> }

\* The calls interleave step by step; the clock stands still meanwhile.
NextConc ==
    \/ \E c \in callers, code \in ScraperCodes : ScInvoke(c, code)
    \/ \E c \in callers : ScRLock(c)
    \/ \E c \in callers : ScRead(c)
    \/ \E c \in callers, kind \in FailureKinds : ScScrapeFails(c, kind)
    \/ \E c \in callers, rows \in ConcPages : ScScrapePage(c, rows)
    \/ \E c \in callers : ScWLock(c)
    \/ \E c \in callers : ScStore(c)

SpecConc == InitConc /\ [][NextConc]_vars

\* The callers that hold the read lock / the write lock.
Readers == { c \in callers : sc[c].pc = "read" }

Writers == { c \in callers : sc[c].pc = "store" }

\* C11: under every interleaving of calls, while a call is storing an entry
\* (it holds the write lock) no other call is reading or storing the cache
\* map; the calls reading it hold the read lock, and there may be several.
C11_ReaderWriterDiscipline ==
    /\ Cardinality(Writers) <= 1
    /\ Writers # {} => Readers = {}
    /\ cacheMutex.writer <=> Writers # {}
    /\ cacheMutex.readers = Cardinality(Readers)

\* C11 witness: one call is storing its entry while the other, which missed
\* the cache too, waits for the write lock.
C11_Witness ==
    \E c, d \in callers :
        /\ sc[c].pc = "store"
        /\ sc[d].pc = "wlock"

\* Two calls read the cache map at the same time.
C11_ParallelReads == Readers = ConcCallers

\* ------------------------------------------------------------------------
\* Both pipelines: a behaviour runs the iucn client or the scraper.
\* ------------------------------------------------------------------------

InitAll == Init \/ InitScraper

NextAll == Next \/ NextScraper

SpecAll == InitAll /\ [][NextAll]_vars

Min(a, b) == IF a <= b THEN a ELSE b

\* C3: the record GetSpeciesByCountry returns holds exactly the first
\* min(cap, q) of the q qualifying assessments (cap is 20 in the code,
\* MaxSpecies here), and a scrapeWikipedia that succeeds returns between 1
\* and 20 species, as does every record the scraper returns.
C3_AtMostCap ==
    /\ (ReturnedRecord /\ Decoded) =>
          /\ Len(ret.data.Species) = Min(MaxSpecies, Len(Qualifying))
          /\ \A k \in DOMAIN ret.data.Species :
                ret.data.Species[k].ScientificName = Qualifying[k].TaxonScientificName
    /\ \A c \in callers :
          (sc[c].wiki # Nil /\ ~sc[c].wiki.err) =>
              /\ Len(sc[c].wiki.species) >= 1
              /\ Len(sc[c].wiki.species) <= WikiLimit
    /\ \A k \in DOMAIN hist : Len(hist[k].data.Species) <= WikiLimit

\* C3 witness: more assessments qualified than the cap admits, and the
\* record returned holds as many species as the cap.
C3_Witness ==
    /\ ReturnedRecord /\ Decoded
    /\ Len(Qualifying) > MaxSpecies
    /\ Len(ret.data.Species) = MaxSpecies

\* A page with more than 20 usable rows was scraped and gave 20 species.
C3_WikiFull ==
    \E k \in DOMAIN hist :
        /\ hist[k].scraped
        /\ Len(hist[k].data.Species) = WikiLimit

\* C5 (as claimed): in every record either pipeline returns, every species
\* has a non-empty name.
C5_NameNeverEmpty ==
    /\ ReturnedRecord =>
          \A k \in DOMAIN ret.data.Species : ret.data.Species[k].Name # <<>>
    /\ \A k \in DOMAIN hist :
          \A n \in DOMAIN hist[k].data.Species : hist[k].data.Species[n].Name # <<>>

\* ------------------------------------------------------------------------
\* Common-name selection, applied to lists of common names.
\* ------------------------------------------------------------------------

\* Longest list of common names.
MaxNames == 3

CommonNameEntries ==
    { [Name |-> <<"Lion">>, Language |-> "eng", Main |-> FALSE],
      [Name |-> <<"Simba">>, Language |-> "eng", Main |-> FALSE],
      [Name |-> <<"African", " ", "Lion">>, Language |-> "eng", Main |-> TRUE],
      [Name |-> <<"King">>, Language |-> "eng", Main |-> TRUE],
      [Name |-> <<"Leon">>, Language |-> "spa", Main |-> TRUE] }

TaxonWith(names) ==
    [KingdomName |-> "Animalia", PhylumName |-> "Chordata",
     ClassName |-> "Mammalia", OrderName |-> "Carnivora",
     FamilyName |-> "Felidae", CommonNames |-> names]

InitNames ==
    /\ impl \in {"client", "dummy"}
    /\ ClientIdle
    /\ ScraperIdle
    /\ arg \in [ a : { j \in UpstreamAssessments : ValidName(j.taxon_scientific_name) },
                 names : SeqsUpTo(CommonNameEntries, MaxNames) ]
    /\ out = NoArg
    /\ reqs = NoReqs
    /\ bg = NoBg
    /\ h = HandlerIdle
    /\ fetchAlls = 0
    /\ par = NoPar

\* What a task stores for assessment arg.a (of a name GetSpeciesDetails
\* accepts) when GetSpeciesDetails returned a taxon with the common names
\* arg.names.
ApplyBuildSpecies ==
    /\ out = NoArg
    /\ arg # NoArg
    /\ out' = IF impl = "dummy"
              THEN BuildSpeciesUrl(DecodeAssessment(arg.a),
                                   [details |-> TaxonWith(arg.names), err |-> FALSE])
              ELSE BuildSpecies(DecodeAssessment(arg.a),
                                [details |-> TaxonWith(arg.names), err |-> FALSE])
    /\ UNCHANGED << impl, clientVars, scraperVars, reqs, serverVars, arg, par >>

NextNames == ApplyBuildSpecies

SpecNames == InitNames /\ [][NextNames]_vars

EngMain(names) ==
    { k \in DOMAIN names : names[k].Language = "eng" /\ names[k].Main }

Eng(names) == { k \in DOMAIN names : names[k].Language = "eng" }

First(S) == CHOOSE k \in S : \A j \in S : k <= j

\* C8 (as claimed): when the list holds an "eng" entry with the main flag, the
\* species name is the name of the first such entry.
C8_PrimaryEnglishPreferred ==
    (out # NoArg /\ EngMain(arg.names) # {}) =>
        out.Name = arg.names[First(EngMain(arg.names))].Name

\* C9 (as claimed): when no entry is "eng" with the main flag, the species
\* name is the name of the first "eng" entry, or the scientific name when
\* there is no "eng" entry.
C9_FirstEnglishElseScientific ==
    (out # NoArg /\ EngMain(arg.names) = {}) =>
        IF Eng(arg.names) # {}
        THEN out.Name = arg.names[First(Eng(arg.names))].Name
        ELSE out.Name = arg.a.taxon_scientific_name


\* ------------------------------------------------------------------------
\* The background goroutine of NewClient: FetchAllCountries.
\* ------------------------------------------------------------------------

\* The decodable /countries payloads: code and description.en of each country.
CountryLists ==
    { <<>>,
      << [Code |-> <<"U", "S">>, En |-> <<"United", " ", "States">>] >>,
      << [Code |-> <<"B", "R">>, En |-> <<"Brazil">>],
         [Code |-> <<"U", "S">>, En |-> <<"United", " ", "States">>] >> }

\* The process has not been aborted by the runtime.
Alive == pc # "fatal"

\* Mutant of FetchAllCountries: a body that does not decode to its end leaves
\* the entry decoded before the error in the map.
BgGetFailsPartial(kind) ==
    /\ Alive
    /\ bg.pc = "get"
    /\ kind \in FailureKinds
    /\ bg' = [bg EXCEPT !.pc = "failed"]
    /\ CountryCodeToName' =
          IF kind = "decode"
          THEN [c \in DOMAIN CountryCodeToName \cup {<<"B", "R">>} |->
                   IF c = <<"B", "R">> THEN <<"Brazil">> ELSE CountryCodeToName[c]]
          ELSE CountryCodeToName
    /\ UNCHANGED << impl, pc, countryCode, countryResp, i, idx, speciesList, mu,
                    sem, wg, tasks, ret >>
    /\ UNCHANGED << scraperVars, fnVars, reqs, h, fetchAlls >>

\* The /countries request fails, answers another status than 200, or its body
\* does not decode: FetchAllCountries returns the error, which nobody reads.
BgGetFails(kind) ==
    /\ Alive
    /\ bg.pc = "get"
    /\ kind \in FailureKinds
    /\ bg' = [bg EXCEPT !.pc = "failed"]
    /\ UNCHANGED << impl, clientVars, scraperVars, fnVars, reqs, h, fetchAlls >>

BgGetDecodes(list) ==
    /\ Alive
    /\ bg.pc = "get"
    /\ bg' = [pc |-> "loop", list |-> list, k |-> 1]
    /\ UNCHANGED << impl, clientVars, scraperVars, fnVars, reqs, h, fetchAlls >>

\* c.CountryCodeToName[country.Code] = ...: the map assignment begins.
BgAssignBegin ==
    /\ Alive
    /\ bg.pc = "loop"
    /\ bg.k <= Len(bg.list)
    /\ bg' = [bg EXCEPT !.pc = "assign"]
    /\ UNCHANGED << impl, clientVars, scraperVars, fnVars, reqs, h, fetchAlls >>

\* The map assignment is done.
BgAssignEnd ==
    /\ Alive
    /\ bg.pc = "assign"
    /\ CountryCodeToName' = IndexAfterAssign
    /\ bg' = [bg EXCEPT !.pc = "loop", !.k = @ + 1]
    /\ UNCHANGED << impl, pc, countryCode, countryResp, i, idx, speciesList, mu,
                    sem, wg, tasks, ret >>
    /\ UNCHANGED << scraperVars, fnVars, reqs, h, fetchAlls >>

\* The range loop is over: return nil.
BgDone ==
    /\ Alive
    /\ bg.pc = "loop"
    /\ bg.k > Len(bg.list)
    /\ bg' = [bg EXCEPT !.pc = "done"]
    /\ UNCHANGED << impl, clientVars, scraperVars, fnVars, reqs, h, fetchAlls >>

\* ------------------------------------------------------------------------
\* The HTTP handlers of /api/species/.
\* ------------------------------------------------------------------------

\* Requests one behaviour serves.
MaxRequests == 2

Methods == { "GET", "OPTIONS", "POST" }

\* r.URL.Path after the prefix /api/species/.
Paths ==
    { <<>>, <<"u", "s">>, <<"U", "S">>, <<"b", "r">>, <<" ", "u", "s">>,
      <<"u">>, <<"u", "s", "a">> }

\* The /countries/{code} payloads these requests are answered with.
ShortPayloads ==
    [ name : { <<>>, <<"Brazil">> },
      assessments : SeqsUpTo(UpstreamAssessments, 1) ]

\* w.Header().Set(name, value).
SetHeader(header, name, value) ==
    [n \in DOMAIN header \cup {name} |-> IF n = name THEN value ELSE header[n]]

\* net/http's http.Error: a plain-text body, the Content-Type replaced.
HttpError(header, msg, code) ==
    [status |-> code,
     header |-> SetHeader(SetHeader(header, "Content-Type", "text/plain; charset=utf-8"),
                          "X-Content-Type-Options", "nosniff"),
     body   |-> [kind |-> "text", value |-> msg]]

\* json.NewEncoder(w).Encode(v) after the status was written (200 when the
\* handler wrote none).
JsonResponse(header, code, v) ==
    [status |-> code, header |-> header, body |-> [kind |-> "json", value |-> v]]

ErrorResponse(error, message) == [error |-> error, message |-> message]

\* The headers the handlers of the iucn client set first.
IucnHeaders ==
    SetHeader(SetHeader(<<>>, "Access-Control-Allow-Origin", "*"),
              "Content-Type", "application/json")

\* The headers Handler.GetSpeciesByCountry sets first.
ScraperHeaders ==
    SetHeader(SetHeader(SetHeader(SetHeader(<<>>,
        "Access-Control-Allow-Origin", "*"),
        "Access-Control-Allow-Methods", "GET, OPTIONS"),
        "Access-Control-Allow-Headers", "Content-Type"),
        "Content-Type", "application/json")

\* iucn.NewClient: a Client with an empty map, and its FetchAllCountries
\* goroutine started.
NewClient ==
    /\ pc' = "idle"
    /\ countryCode' = <<>>
    /\ countryResp' = NoResp
    /\ i' = 0
    /\ idx' = 0
    /\ speciesList' = <<>>
    /\ mu' = Unlocked
    /\ sem' = 0
    /\ wg' = 0
    /\ tasks' = <<>>
    /\ ret' = NoRet
    /\ CountryCodeToName' = <<>>
    /\ reqs' = NoReqs
    /\ bg' = BgStarted
    /\ fetchAlls' = fetchAlls + 1

\* Mutant of GetSpeciesByCountry: an upstream error is answered like a success.
GetSpeciesByCountryRespondAlwaysOk ==
    /\ Alive
    /\ impl \in {"client", "dummy"}
    /\ h.pc = "call"
    /\ pc = "returned"
    /\ h' = [h EXCEPT !.pc = "done", !.served = @ + 1,
                      !.resp = JsonResponse(IucnHeaders, 200, ret.data)]
    /\ UNCHANGED << impl, clientVars, scraperVars, fnVars, reqs, bg, fetchAlls >>

\* handlers.GetSpeciesByCountry (the function of part_000 and part_001) up
\* to its call of the client: headers, the code from the path, validation,
\* NewClient.  The method is never looked at.
GetSpeciesByCountryReceive(method, path) ==
    /\ Alive
    /\ impl \in {"client", "dummy"}
    /\ arg = NoArg
    /\ h.pc \in {"idle", "done"}
    /\ h.served < MaxRequests
    /\ IF TrimSpace(path) = <<>> \/ Len(TrimSpace(path)) # 2
       THEN /\ h' = [h EXCEPT !.pc = "done", !.method = method, !.path = path,
                              !.countryCode = TrimSpace(path),
                              !.served = @ + 1, !.errLog = "",
                              !.resp = HttpError(IucnHeaders, "Invalid country code", 400)]
            /\ UNCHANGED << clientVars, reqs, bg, fetchAlls >>
       ELSE /\ h' = [h EXCEPT !.pc = "call", !.method = method, !.path = path,
                              !.countryCode = TrimSpace(path), !.errLog = "",
                              !.resp = NoResponse]
            /\ NewClient
    /\ UNCHANGED << impl, scraperVars, fnVars >>

\* client.GetSpeciesByCountry(countryCode) is entered.
GetSpeciesByCountryCall ==
    /\ Alive
    /\ h.pc = "call"
    /\ Invoke(h.countryCode)

\* Mutant of GetSpeciesByCountry: the error goes out in the body of the 500.
GetSpeciesByCountryRespondLeaks ==
    /\ Alive
    /\ impl \in {"client", "dummy"}
    /\ h.pc = "call"
    /\ pc = "returned"
    /\ h' = [h EXCEPT !.pc = "done", !.served = @ + 1,
                      !.errLog = IF ret.err THEN ret.detail ELSE "",
                      !.resp = IF ret.err
                               THEN HttpError(IucnHeaders, ret.detail, 500)
                               ELSE JsonResponse(IucnHeaders, 200, ret.data)]
    /\ UNCHANGED << impl, clientVars, scraperVars, fnVars, reqs, bg, fetchAlls >>

\* The client returned: for an error, log it and answer 500 with a fixed
\* text; else the record as JSON.
GetSpeciesByCountryRespond ==
    /\ Alive
    /\ impl \in {"client", "dummy"}
    /\ h.pc = "call"
    /\ pc = "returned"
    /\ h' = [h EXCEPT !.pc = "done", !.served = @ + 1,
                      !.errLog = IF ret.err THEN ret.detail ELSE "",
                      !.resp = IF ret.err
                               THEN HttpError(IucnHeaders, "Failed to fetch data", 500)
                               ELSE JsonResponse(IucnHeaders, 200, ret.data)]
    /\ UNCHANGED << impl, clientVars, scraperVars, fnVars, reqs, bg, fetchAlls >>

\* Mutant of HandlerReceive: the code is validated before the method is
\* looked at.
HandlerReceiveCodeFirst(method, path) ==
    /\ impl = "scraper"
    /\ arg = NoArg
    /\ h.pc \in {"idle", "done"}
    /\ h.served < MaxRequests
    /\ LET hd == [h EXCEPT !.method = method, !.path = path,
                           !.countryCode = TrimSpace(path), !.errLog = ""]
           answer(r) == [hd EXCEPT !.pc = "done", !.served = @ + 1, !.resp = r]
       IN  IF TrimSpace(path) = <<>>
           THEN h' = answer(JsonResponse(ScraperHeaders, 400,
                        ErrorResponse("missing_country_code",
                            "Country code is required. Use /api/species/{countryCode}")))
           ELSE IF Len(TrimSpace(path)) # 2
           THEN h' = answer(JsonResponse(ScraperHeaders, 400,
                        ErrorResponse("invalid_country_code",
                            "Country code must be a 2-letter ISO 3166-1 alpha-2 code")))
           ELSE IF method = "OPTIONS"
           THEN h' = answer([status |-> 200, header |-> ScraperHeaders,
                             body |-> [kind |-> "none"]])
           ELSE IF method # "GET"
           THEN h' = answer(JsonResponse(ScraperHeaders, 405,
                        ErrorResponse("method_not_allowed", "Only GET method is allowed")))
           ELSE h' = [hd EXCEPT !.pc = "call", !.seen = Len(hist), !.resp = NoResponse]
    /\ UNCHANGED << impl, clientVars, scraperVars, fnVars, reqs, bg, fetchAlls >>

\* Handler.GetSpeciesByCountry up to its call of the scraper: headers, the
\* preflight, the method, the code from the path, validation.
HandlerReceive(method, path) ==
    /\ impl = "scraper"
    /\ arg = NoArg
    /\ h.pc \in {"idle", "done"}
    /\ h.served < MaxRequests
    /\ LET hd == [h EXCEPT !.method = method, !.path = path,
                           !.countryCode = TrimSpace(path), !.errLog = ""]
           answer(r) == [hd EXCEPT !.pc = "done", !.served = @ + 1, !.resp = r]
       IN  IF method = "OPTIONS"
           THEN h' = answer([status |-> 200, header |-> ScraperHeaders,
                             body |-> [kind |-> "none"]])
           ELSE IF method # "GET"
           THEN h' = answer(JsonResponse(ScraperHeaders, 405,
                        ErrorResponse("method_not_allowed", "Only GET method is allowed")))
           ELSE IF TrimSpace(path) = <<>>
           THEN h' = answer(JsonResponse(ScraperHeaders, 400,
                        ErrorResponse("missing_country_code",
                            "Country code is required. Use /api/species/{countryCode}")))
           ELSE IF Len(TrimSpace(path)) # 2
           THEN h' = answer(JsonResponse(ScraperHeaders, 400,
                        ErrorResponse("invalid_country_code",
                            "Country code must be a 2-letter ISO 3166-1 alpha-2 code")))
           ELSE h' = [hd EXCEPT !.pc = "call", !.seen = Len(hist), !.resp = NoResponse]
    /\ UNCHANGED << impl, clientVars, scraperVars, fnVars, reqs, bg, fetchAlls >>

\* h.scraper.GetSpeciesByCountry(countryCode) is entered.
HandlerCall ==
    /\ h.pc = "call"
    /\ Len(hist) = h.seen
    /\ ScInvoke(1, h.countryCode)

\* The scraper returned; its error is always nil (scrapeSpeciesData returns
\* none), so the record goes out with status 200.
HandlerRespond ==
    /\ impl = "scraper"
    /\ h.pc = "call"
    /\ Len(hist) = h.seen + 1
    /\ h' = [h EXCEPT !.pc = "done", !.served = @ + 1,
                      !.resp = JsonResponse(ScraperHeaders, 200, hist[Len(hist)].data)]
    /\ UNCHANGED << impl, clientVars, scraperVars, fnVars, reqs, bg, fetchAlls >>

\* The answer of HealthCheck.
Healthy ==
    JsonResponse(SetHeader(<<>>, "Content-Type", "application/json"), 200,
                 [status |-> "healthy"])

\* Mutant of HealthCheck: unhealthy while the country list cannot be fetched.
HealthCheckUpstream(method) ==
    /\ Alive
    /\ arg = NoArg
    /\ method \in Methods
    /\ h' = [h EXCEPT !.health =
                IF bg.pc = "failed"
                THEN JsonResponse(SetHeader(<<>>, "Content-Type", "application/json"),
                                  503, [status |-> "unhealthy"])
                ELSE Healthy]
    /\ UNCHANGED << impl, clientVars, scraperVars, fnVars, reqs, bg, fetchAlls >>

\* HealthCheck (all three handler files): a request to /api/health, served
\* in its own goroutine at any moment.  It reads neither the method nor any
\* state of the process.
HealthCheck(method) ==
    /\ Alive
    /\ arg = NoArg
    /\ method \in Methods
    /\ h' = [h EXCEPT !.health = Healthy]
    /\ UNCHANGED << impl, clientVars, scraperVars, fnVars, reqs, bg, fetchAlls >>

\* The process at start: no request yet, no Client yet; the Handler has its
\* Scraper.
InitServer ==
    /\ impl \in {"client", "dummy", "scraper"}
    /\ ClientIdle
    /\ FnIdle
    /\ cache = <<>>
    /\ cacheMutex = [readers |-> 0, writer |-> FALSE]
    /\ callers = {1}
    /\ sc = [c \in {1} |-> ScIdle]
    /\ now = 0
    /\ hist = <<>>
    /\ reqs = NoReqs
    /\ bg = NoBg
    /\ h = HandlerIdle
    /\ fetchAlls = 0
    /\ par = NoPar

NextServer ==
    \/ \E method \in Methods, path \in Paths : GetSpeciesByCountryReceive(method, path)
    \/ GetSpeciesByCountryCall
    \/ GetSpeciesByCountryRespond
    \/ \E kind \in FailureKinds : BgGetFails(kind)
    \/ \E list \in CountryLists : BgGetDecodes(list)
    \/ BgAssignBegin
    \/ BgAssignEnd
    \/ BgDone
    \/ \E kind \in FailureKinds : GetFails(kind)
    \/ \E p \in ShortPayloads : GetDecodes(p)
    \/ LoopSkip
    \/ LoopLock
    \/ LoopAppend
    \/ LoopSpawn
    \/ LoopEnd
    \/ Wait
    \/ Return
    \/ \E t \in DOMAIN tasks : TaskAcquire(t)
    \/ \E t \in DOMAIN tasks, kind \in FailureKinds \cup {"invalid"} : TaskDetailsFail(t, kind)
    \/ \E t \in DOMAIN tasks, taxon \in TaxonPayloads : TaskDetailsOk(t, taxon)
    \/ \E t \in DOMAIN tasks : TaskLock(t)
    \/ \E t \in DOMAIN tasks : TaskWrite(t)
    \/ \E t \in DOMAIN tasks : TaskRelease(t)
    \/ \E t \in DOMAIN tasks : TaskDone(t)
    \/ \E method \in Methods, path \in Paths : HandlerReceive(method, path)
    \/ HandlerCall
    \/ ScRLock(1)
    \/ ScRead(1)
    \/ \E kind \in FailureKinds : ScScrapeFails(1, kind)
    \/ \E rows \in ConcPages : ScScrapePage(1, rows)
    \/ ScWLock(1)
    \/ ScStore(1)
    \/ HandlerRespond
    \/ \E method \in Methods : HealthCheck(method)

SpecServer == InitServer /\ [][NextServer]_vars


\* ------------------------------------------------------------------------
\* Properties of the Country Name Index.
\* ------------------------------------------------------------------------

\* The step in which GetSpeciesByCountry calls c.GetCountryName: the response
\* carried no name, so the map is read.
ReadsIndex == pc = "resolve" /\ pc' # "resolve" /\ countryResp.name = <<>>

\* C12 (as claimed): no read of Client.CountryCodeToName by GetCountryName
\* happens while the background FetchAllCountries is inside a write to it.
C12_IndexAccessSynchronized == [][ReadsIndex => bg.pc # "assign"]_vars

\* C13 (as claimed): whatever the number of requests handled, at most one
\* FetchAllCountries call has been started since the process began (each
\* start comes with a new, empty index).
C13_OneBackgroundFetch == fetchAlls <= 1

\* A step of the GetSpeciesByCountry call under way or of one of its tasks.
CallStep ==
    \/ \E kind \in FailureKinds : GetFails(kind)
    \/ \E p \in ShortPayloads : GetDecodes(p)
    \/ LoopSkip
    \/ LoopLock
    \/ LoopAppend
    \/ LoopSpawn
    \/ LoopEnd
    \/ Wait
    \/ Return
    \/ \E t \in DOMAIN tasks : TaskAcquire(t)
    \/ \E t \in DOMAIN tasks, kind \in FailureKinds \cup {"invalid"} : TaskDetailsFail(t, kind)
    \/ \E t \in DOMAIN tasks, taxon \in TaxonPayloads : TaskDetailsOk(t, taxon)
    \/ \E t \in DOMAIN tasks : TaskLock(t)
    \/ \E t \in DOMAIN tasks : TaskWrite(t)
    \/ \E t \in DOMAIN tasks : TaskRelease(t)
    \/ \E t \in DOMAIN tasks : TaskDone(t)

\* C14 (as claimed): whatever the background FetchAllCountries is doing, a
\* GetSpeciesByCountry call under way can go on until it returns (the call
\* and its GetCountryName never wait for the index and never end otherwise),
\* and a record returned for a response that carried a name has that name.
C14_NeverWaitsForIndex ==
    /\ (h.pc = "call" /\ pc \notin {"idle", "returned"}) => ENABLED CallStep
    /\ (h.pc = "call" /\ ReturnedRecord /\ Decoded /\ countryResp.name # <<>>) =>
          ret.data.Country = countryResp.name


\* ------------------------------------------------------------------------
\* GetCountryName, applied to codes and indexes.
\* ------------------------------------------------------------------------

\* The map after FetchAllCountries has made the first n assignments of list.
RECURSIVE IndexOf(_, _)
IndexOf(list, n) ==
    IF n = 0 THEN <<>>
    ELSE LET m == IndexOf(list, n - 1)
         IN  [c \in DOMAIN m \cup {list[n].Code} |->
                 IF c = list[n].Code THEN list[n].En ELSE m[c]]

\* The maps the Client can hold: before, during and after the population.
Indexes ==
    UNION { { IndexOf(list, n) : n \in 0..Len(list) } : list \in CountryLists }

LookupCodes ==
    { <<"u", "s">>, <<"U", "S">>, <<"U", "s">>, <<"b", "r">>, <<"B", "R">>,
      <<"c", "n">>, <<"C", "N">>, <<"x", "x">>, <<"X", "X">>, <<>> }

InitLookup ==
    /\ impl \in {"client", "dummy", "scraper"}
    /\ pc = "idle"
    /\ countryCode = <<>>
    /\ countryResp = NoResp
    /\ i = 0
    /\ idx = 0
    /\ speciesList = <<>>
    /\ mu = Unlocked
    /\ sem = 0
    /\ wg = 0
    /\ tasks = <<>>
    /\ ret = NoRet
    /\ CountryCodeToName \in (IF impl = "scraper" THEN { <<>> } ELSE Indexes)
    /\ ScraperIdle
    /\ arg \in [ code : LookupCodes ]
    /\ out = NoArg
    /\ reqs = NoReqs
    /\ bg = NoBg
    /\ h = HandlerIdle
    /\ fetchAlls = 0
    /\ par = NoPar

\* c.GetCountryName(code) of the iucn package, GetCountryName(code) of the
\* scraper package.
ApplyGetCountryName ==
    /\ out = NoArg
    /\ arg # NoArg
    /\ out' = IF impl = "scraper"
              THEN [name |-> ScraperGetCountryName(arg.code)]
              ELSE [name |-> GetCountryName(arg.code)]
    /\ UNCHANGED << impl, clientVars, scraperVars, reqs, serverVars, arg, par >>

NextLookup == ApplyGetCountryName

SpecLookup == InitLookup /\ [][NextLookup]_vars

\* The index the lookup reads: code |-> name.
IndexRead ==
    IF impl = "scraper"
    THEN [c \in { e[1] : e \in countryCodeToName } |->
             (CHOOSE e \in countryCodeToName : e[1] = c)[2]]
    ELSE CountryCodeToName

\* C15: the lookup returns the name mapped to the uppercased code when the
\* index has it, so that "us", "Us" and "US" give the name of US, and returns
\* the code exactly as given when the index has no such entry (an unknown
\* code, or an index not populated yet).
C15_LookupOrEcho ==
    out # NoArg =>
        /\ ToUpper(arg.code) \in DOMAIN IndexRead =>
              out.name = IndexRead[ToUpper(arg.code)]
        /\ ToUpper(arg.code) \notin DOMAIN IndexRead => out.name = arg.code
        /\ (arg.code \in { <<"u", "s">>, <<"U", "s">>, <<"U", "S">> }
              /\ <<"U", "S">> \in DOMAIN IndexRead) =>
                 out.name = <<"United", " ", "States">>
        /\ arg.code = <<"x", "x">> => out.name = <<"x", "x">>

\* C15 witness: a lower-case code was looked up in the Client's index, which
\* holds its upper-case form, and its name came back.
C15_Witness ==
    /\ out # NoArg
    /\ impl # "scraper"
    /\ arg.code = <<"u", "s">>
    /\ <<"U", "S">> \in DOMAIN CountryCodeToName
    /\ out.name = <<"United", " ", "States">>

\* The lookup of an unknown code in a populated index echoed the code.
C15_Echo ==
    /\ out # NoArg
    /\ impl # "scraper"
    /\ arg.code = <<"x", "x">>
    /\ CountryCodeToName # <<>>
    /\ out.name = arg.code


\* ------------------------------------------------------------------------
\* Properties of the HTTP handlers.
\* ------------------------------------------------------------------------

\* The handler has answered the request in hand.
Answered == h.pc = "done"

\* The code of the request in hand passed the length check.
ValidCode == Len(h.countryCode) = 2

\* The answer is 200 with a record as JSON.
OkRecord == h.resp.status = 200 /\ h.resp.body.kind = "json"

\* C16 (as claimed): every GET with a code of length 2 is answered 200 with
\* country_code equal to the uppercased code.
C16_AlwaysOkUppercased ==
    (Answered /\ h.method = "GET" /\ ValidCode) =>
        /\ OkRecord
        /\ h.resp.body.value.CountryCode = ToUpper(h.countryCode)

\* C16 (amended): every answer to a GET with a code of length 2 is 200 with
\* country_code equal to the uppercased code, whatever the case of the input,
\* unless the upstream country fetch of the iucn client failed, and then it
\* is 500.
C16_OkUppercasedOr500 ==
    (Answered /\ h.method = "GET" /\ ValidCode) =>
        IF impl # "scraper" /\ reqs.failed > 0
        THEN h.resp.status = 500
        ELSE /\ OkRecord
             /\ h.resp.body.value.CountryCode = ToUpper(h.countryCode)

\* C16 witness: a GET with a lower-case code was answered 200 by the handler
\* of the iucn client after an upstream fetch, with the code in upper case.
C16_Witness ==
    /\ Answered /\ h.method = "GET"
    /\ impl = "client"
    /\ h.countryCode = <<"u", "s">>
    /\ OkRecord
    /\ h.resp.body.value.CountryCode = <<"U", "S">>

\* C17 (as claimed): in every handler, a GET whose code has another length
\* than 2 (the empty code included) is answered 400 with a JSON body
\* {error, message}.
C17_BadLength400Json ==
    (Answered /\ h.method = "GET" /\ ~ValidCode) =>
        /\ h.resp.status = 400
        /\ h.resp.body.kind = "json"
        /\ DOMAIN h.resp.body.value = {"error", "message"}

\* C18 (as claimed): in every handler, a request whose method is not GET is
\* answered without any fetch of species data (the handler never enters its
\* call of the client or the scraper); OPTIONS is answered 200 with an empty
\* body and the CORS headers, every other method 405.
C18_PreflightAndMethod ==
    /\ h.method \notin {"", "GET"} => h.pc # "call"
    /\ (Answered /\ h.method = "OPTIONS") =>
          /\ h.resp.status = 200
          /\ h.resp.body.kind = "none"
          /\ "Access-Control-Allow-Origin" \in DOMAIN h.resp.header
    /\ (Answered /\ h.method \notin {"GET", "OPTIONS"}) => h.resp.status = 405

\* C19: when the /countries/{code} request of the iucn client fails
\* (transport error, other status than 200, undecodable body),
\* GetSpeciesByCountry has returned an error and no record, no task was
\* started and no taxonomy request made, and the handler's answer to the
\* request that made the call is 500.
C19_UpstreamFailure500 ==
    reqs.failed > 0 =>
        /\ pc = "returned"
        /\ ret.err /\ ret.data = Nil
        /\ tasks = <<>> /\ speciesList = <<>>
        /\ reqs.taxa = <<>>
        /\ (Answered /\ ValidCode) => h.resp.status = 500

\* C19 witness: the handler answered 500 after the country fetch failed.
C19_Witness ==
    /\ Answered /\ ValidCode
    /\ reqs.failed > 0
    /\ ret.err
    /\ h.resp.status = 500

\* The taxonomy requests made for slot k.
TaxonRequests(k) == IF k \in DOMAIN reqs.taxa THEN reqs.taxa[k] ELSE 0

HeaderIs(name, value) ==
    /\ name \in DOMAIN h.resp.header
    /\ h.resp.header[name] = value

\* C21 (as claimed): every answer of /api/species/, whatever its status,
\* carries Access-Control-Allow-Origin: * and Content-Type: application/json.
C21_CorsAndJsonHeaders ==
    Answered =>
        /\ HeaderIs("Access-Control-Allow-Origin", "*")
        /\ HeaderIs("Content-Type", "application/json")

\* The body of a 500, per handler: the text of part_001:42 and part_000:36,
\* the ErrorResponse of handlers.go:82-85.
FetchErrorBody ==
    IF impl = "scraper"
    THEN [kind |-> "json",
          value |-> ErrorResponse("fetch_error", "Failed to fetch species data")]
    ELSE [kind |-> "text", value |-> "Failed to fetch data"]

\* C22: the body of a 500 is the same fixed body whatever the upstream
\* failure was (transport error, any status, decoding error), so it is equal
\* for any two failures; the error itself went to the server log only.
C22_FixedErrorBody ==
    (Answered /\ h.resp.status = 500) =>
        /\ h.resp.body = FetchErrorBody
        /\ ret.err
        /\ h.errLog = ret.detail

\* C22 witness: a request was answered 500 after the upstream answered with
\* status 404, which is in the log and not in the body.
C22_Witness ==
    /\ Answered /\ h.resp.status = 500
    /\ ret.detail = "API returned status: 404"
    /\ h.errLog = ret.detail
    /\ h.resp.body.value = "Failed to fetch data"

\* Another failure with the same answer: the body did not decode.
C22_WitnessDecode ==
    /\ Answered /\ h.resp.status = 500
    /\ ret.detail = "failed to decode response: unexpected EOF"
    /\ h.resp.body.value = "Failed to fetch data"

\* ------------------------------------------------------------------------
\* Properties of /api/health.
\* ------------------------------------------------------------------------

\* A step of the health handler.
HealthStep == \E method \in Methods : HealthCheck(method)

\* C23: every answer of /api/health is 200 with the body
\* {"status":"healthy"}, and the handler can answer in every state of the
\* running process: whatever the cache and the index hold, whatever the
\* upstream did, and whatever the species handler is doing.
C23_HealthAlwaysHealthy ==
    /\ h.health \in { NoResponse, Healthy }
    /\ h.health # NoResponse =>
          /\ h.health.status = 200
          /\ h.health.body = [kind |-> "json", value |-> [status |-> "healthy"]]
    /\ Alive => ENABLED HealthStep

\* C23 witness: /api/health answered healthy after the upstream failed both
\* the background country list and the species request, which got a 500.
C23_Witness ==
    /\ h.health = Healthy
    /\ bg.pc = "failed"
    /\ Answered /\ h.resp.status = 500

\* /api/health answered while the scraper's cache held an entry.
C23_WitnessCache ==
    /\ h.health = Healthy
    /\ impl = "scraper"
    /\ cache # <<>>

\* ------------------------------------------------------------------------
\* mapCategory and the head of GetSpeciesDetails as functions.
\* ------------------------------------------------------------------------

\* Category codes: the IUCN categories, the older LR/ codes, the empty
\* string, other spellings of the mapped codes, and the labels themselves.
CategoryCodes ==
    { "CR", "EN", "VU", "NT", "LC", "DD", "EX", "EW", "NE", "",
      "LR/nt", "LR/cd", "LR/lc", "cr", "en", "vu", "nt", "Cr", "CR ", " NT",
      "Critically Endangered", "Endangered", "Vulnerable", "Near Threatened",
      "XX" }

\* Scientific names, in pieces: no, one, two and three words, and names with
\* a leading, a trailing or a doubled space or with a tab between the words.
ScientificNames ==
    { <<>>,
      <<"Panthera">>,
      <<"Panthera", " ", "leo">>,
      <<"Panthera", " ", "leo", " ", "persica">>,
      <<"Panthera", " ">>,
      <<" ", "Panthera">>,
      <<" ">>,
      <<" ", " ">>,
      <<"Panthera", " ", " ", "leo">>,
      <<" ", "Panthera", " ", "leo">>,
      <<"Panthera", " ", "leo", " ">>,
      <<"Panthera", "\t", "leo">>,
      <<"Panthera", "\t", "leo", " ", "persica">> }

\* GetSpeciesDetails up to its request: the error for a name of fewer than
\* two parts, else the genus_name and species_name of the URL requested.
DetailsRequest(scientificName) ==
    LET parts == Split(scientificName)
    IN  IF Len(parts) < 2
        THEN [request |-> FALSE, err |-> "invalid scientific name"]
        ELSE [request |-> TRUE, genus |-> parts[1], species |-> parts[2]]

InitFn ==
    /\ impl \in {"client", "dummy"}
    /\ ClientIdle
    /\ ScraperIdle
    /\ arg \in [ fn : {"mapCategory"}, code : CategoryCodes ]
               \cup [ fn : {"GetSpeciesDetails"}, name : ScientificNames ]
    /\ out = NoArg
    /\ reqs = NoReqs
    /\ bg = NoBg
    /\ h = HandlerIdle
    /\ fetchAlls = 0
    /\ par = NoPar

ApplyMapCategory ==
    /\ out = NoArg
    /\ arg # NoArg
    /\ arg.fn = "mapCategory"
    /\ out' = [label |-> mapCategory(arg.code)]
    /\ UNCHANGED << impl, clientVars, scraperVars, reqs, serverVars, arg, par >>

ApplyGetSpeciesDetails ==
    /\ out = NoArg
    /\ arg # NoArg
    /\ arg.fn = "GetSpeciesDetails"
    /\ out' = DetailsRequest(arg.name)
    /\ UNCHANGED << impl, clientVars, scraperVars, reqs, serverVars, arg, par >>

NextFn == ApplyMapCategory \/ ApplyGetSpeciesDetails

SpecFn == InitFn /\ [][NextFn]_vars

\* mapCategory was applied.
Mapped == out # NoArg /\ arg.fn = "mapCategory"

\* C24: mapCategory gives a label for every code: the four labels for CR, EN,
\* VU and NT, and for every other code the code itself.
C24_MapCategoryTotal ==
    Mapped =>
        /\ arg.code = "CR" => out.label = "Critically Endangered"
        /\ arg.code = "EN" => out.label = "Endangered"
        /\ arg.code = "VU" => out.label = "Vulnerable"
        /\ arg.code = "NT" => out.label = "Near Threatened"
        /\ arg.code \notin {"CR", "EN", "VU", "NT"} => out.label = arg.code

\* C24 witness: NT was mapped to its label.
C24_Witness ==
    /\ Mapped
    /\ arg.code = "NT"
    /\ out.label = "Near Threatened"

\* A code that is not mapped comes back unchanged.
C24_WitnessOther ==
    /\ Mapped
    /\ arg.code = "LR/nt"
    /\ out.label = "LR/nt"

\* The words of a string: its maximal runs without white space.
RECURSIVE TokensAcc(_, _, _)
TokensAcc(s, cur, acc) ==
    LET flush == IF cur = <<>> THEN acc ELSE Append(acc, cur)
    IN  IF s = <<>> THEN flush
        ELSE IF Head(s) \in {" ", "\t"} THEN TokensAcc(Tail(s), <<>>, flush)
        ELSE TokensAcc(Tail(s), Append(cur, Head(s)), acc)

Tokens(s) == TokensAcc(s, <<>>, <<>>)

\* GetSpeciesDetails was applied.
Requested == out # NoArg /\ arg.fn = "GetSpeciesDetails"

\* C26 (as claimed): a name of fewer than two words gets the invalid-name
\* error and no request; a name of two words or more gets a request whose
\* genus and species are its first two words.
C26_GenusAndSpeciesTokens ==
    Requested =>
        IF Len(Tokens(arg.name)) < 2
        THEN ~out.request
        ELSE /\ out.request
             /\ out.genus = Tokens(arg.name)[1]
             /\ out.species = Tokens(arg.name)[2]

\* What the code does: the parts are those of strings.Split(name, " "), empty
\* parts included; fewer than two parts is the error without a request, else
\* the request carries the first two parts.
C26_SplitOnSingleSpace ==
    Requested =>
        /\ out.request <=> Len(Split(arg.name)) >= 2
        /\ out.request =>
              /\ out.genus = Split(arg.name)[1]
              /\ out.species = Split(arg.name)[2]

\* A name of one word and a trailing space was requested with an empty
\* species.
C26_EmptySpecies ==
    /\ Requested
    /\ arg.name = <<"Panthera", " ">>
    /\ out.request
    /\ out.species = <<>>

\* ------------------------------------------------------------------------
\* More properties of the Country Name Index.
\* ------------------------------------------------------------------------

\* C25: the step in which FetchAllCountries returns its error (transport
\* error, another status than 200, a body that does not decode) leaves
\* CountryCodeToName exactly as it was, and that is how NewClient made it.
C25_FailedFetchLeavesIndex ==
    [][ (bg.pc # "failed" /\ bg'.pc = "failed") =>
            /\ bg.pc = "get"
            /\ CountryCodeToName' = CountryCodeToName
            /\ CountryCodeToName' = <<>> ]_vars

\* C25 witness: FetchAllCountries failed, the index is as NewClient made it,
\* and the call that found no name in the upstream response returned the
\* code for the country name.
C25_Witness ==
    /\ bg.pc = "failed"
    /\ CountryCodeToName = <<>>
    /\ pc = "returned" /\ ~ret.err
    /\ countryResp.name = <<>>
    /\ ret.data.Country = countryCode

\* The entry of an index for a code, or the code when it has none.
EntryOrCode(index, code) ==
    IF code \in DOMAIN index THEN index[code] ELSE code

\* C27 (as claimed): the step that builds the record from the upstream
\* response gives it the name of that response when it is not empty;
\* otherwise the entry the Country Name Index has for the uppercased code, or
\* the uppercased code when the index has none.  (While FetchAllCountries is
\* in the middle of writing an entry, the index is the map before or after
\* that write.)
C27_CountryNameResolution ==
    [][ (pc = "resolve" /\ pc' = "returned") =>
            /\ countryCode = ToUpper(h.countryCode)
            /\ IF countryResp.name # <<>>
               THEN ret'.data.Country = countryResp.name
               ELSE \/ ret'.data.Country = EntryOrCode(CountryCodeToName, countryCode)
                    \/ /\ bg.pc = "assign"
                       /\ ret'.data.Country = EntryOrCode(IndexAfterAssign, countryCode)
      ]_vars

\* The same for the steps that read the index while FetchAllCountries is not
\* writing it.
C27_ResolutionWithoutRace ==
    [][ (pc = "resolve" /\ pc' = "returned" /\ bg.pc # "assign") =>
            /\ countryCode = ToUpper(h.countryCode)
            /\ ret'.data.Country = IF countryResp.name # <<>>
                                   THEN countryResp.name
                                   ELSE EntryOrCode(CountryCodeToName, countryCode)
      ]_vars

\* The response for "us" carried no name and the record got the name from
\* the index, which FetchAllCountries had populated.
C27_Witness ==
    /\ pc = "returned" /\ ~ret.err
    /\ h.countryCode = <<"u", "s">>
    /\ countryResp.name = <<>>
    /\ bg.pc = "done"
    /\ ret.data.Country = <<"United", " ", "States">>

\* The index had an entry for the code, and the record has the name of the
\* response.
C27_WitnessResponse ==
    /\ pc = "returned" /\ ~ret.err
    /\ countryResp.name = <<"Brazil">>
    /\ countryCode \in DOMAIN CountryCodeToName
    /\ ret.data.Country = <<"Brazil">>

\* Neither the response nor the index had a name: the uppercased code.
C27_WitnessCode ==
    /\ pc = "returned" /\ ~ret.err
    /\ h.countryCode = <<"u", "s">>
    /\ countryResp.name = <<>>
    /\ bg.pc = "failed"
    /\ ret.data.Country = <<"U", "S">>

\* ------------------------------------------------------------------------
\* Properties of the scraper's fallback and cache.
\* ------------------------------------------------------------------------

\* Callers whose scrapeSpeciesData has returned after scrapeWikipedia failed
\* or found no species.
FellBack ==
    { c \in callers : sc[c].pc \in {"wlock", "store"} /\ sc[c].wiki.err }

\* The codes sampleDataByRegion has a list for.
SampleCodes == { e[1] : e \in sampleDataByRegion }

\* C28: whenever scrapeWikipedia fails or finds no species, scrapeSpeciesData
\* returns a record and no error, and the species of the record are the
\* fixed list of the code's region when the code has one, and otherwise the
\* one placeholder species; every call that returned has returned a record.
C28_DeterministicFallback ==
    /\ \A c \in FellBack :
          /\ sc[c].data # Nil
          /\ sc[c].data.CountryCode = sc[c].countryCode
          /\ IF sc[c].countryCode \in SampleCodes
             THEN \E e \in sampleDataByRegion :
                     /\ e[1] = sc[c].countryCode
                     /\ sc[c].data.Species = e[2]
                     /\ Len(e[2]) >= 1
             ELSE /\ Len(sc[c].data.Species) = 1
                  /\ sc[c].data.Species[1].Name = <<"Data", " ", "unavailable">>
                  /\ sc[c].data.Species[1].ScientificName = <<"N/A">>
    /\ \A k \in DOMAIN hist : hist[k].data # Nil

\* C28 witness: the scrape for a code without a region list failed and the
\* record holds the one placeholder species.
C28_Witness ==
    \E c \in FellBack :
        /\ sc[c].countryCode = <<"Z", "Z">>
        /\ Len(sc[c].data.Species) = 1
        /\ sc[c].data.Species[1].Name = <<"Data", " ", "unavailable">>

\* The scrape for US failed and the record holds the list of US, with the
\* California Condor.
C28_WitnessRegion ==
    \E c \in FellBack :
        /\ sc[c].countryCode = <<"U", "S">>
        /\ \E k \in DOMAIN sc[c].data.Species :
              sc[c].data.Species[k].Name = <<"California", " ", "Condor">>

\* C29: the cache only grows.  No step removes a code from it; a step that
\* changes it is the store of one caller, which puts the record that caller
\* computed under its code and leaves every other entry as it was; and a
\* call that computed no record has stored nothing (every entry is a record).
C29_CacheOnlyGrows ==
    [][ /\ DOMAIN cache \subseteq DOMAIN cache'
        /\ cache' # cache =>
              \E c \in callers :
                 /\ sc[c].pc = "store"
                 /\ sc[c].data # Nil
                 /\ DOMAIN cache' = DOMAIN cache \cup {sc[c].countryCode}
                 /\ cache'[sc[c].countryCode] = sc[c].data
                 /\ \A k \in DOMAIN cache :
                       k # sc[c].countryCode => cache'[k] = cache[k]
      ]_vars

\* C29 witness: two codes were stored one after the other, time passed, and
\* a later call found the first of them still in the cache.
C29_Witness ==
    /\ Cardinality(DOMAIN cache) = 2
    /\ Len(hist) = 3
    /\ hist[1].scraped /\ hist[2].scraped /\ ~hist[3].scraped
    /\ hist[3].code = hist[1].code
    /\ hist[3].at > hist[1].at

\* ------------------------------------------------------------------------
\* Progress of the fan-out.
\* ------------------------------------------------------------------------

\* The assessment lists of these behaviours: every number of qualifying
\* assessments from none to one more than the cap, and a list with an
\* assessment that is passed over and one whose name GetSpeciesDetails
\* rejects.
LiveLists ==
    { [k \in 1..n |-> [taxon_scientific_name |-> <<"Panthera", " ", "leo">>,
                       red_list_category_code |-> "CR", url |-> "https://iucn/1"]] :
          n \in 0..(MaxSpecies + 1) }
    \cup
    { << [taxon_scientific_name |-> <<"Lynx", " ", "lynx">>,
          red_list_category_code |-> "NT", url |-> "https://iucn/3"],
         [taxon_scientific_name |-> <<>>,
          red_list_category_code |-> "EN", url |-> "https://iucn/2"],
         [taxon_scientific_name |-> <<"Panthera", " ", "leo">>,
          red_list_category_code |-> "VU", url |-> "https://iucn/1"] >> }

LivePayloads == [ name : { <<"Brazil">> }, assessments : LiveLists ]

\* One decodable /taxa/scientific_name payload.
LiveTaxon == CHOOSE taxon \in TaxonPayloads : taxon.CommonNames[1].Language = "eng"

\* A step of the goroutine that runs GetSpeciesByCountry, from its loop on.
MainStep ==
    LoopSkip \/ LoopLock \/ LoopAppend \/ LoopSpawn \/ LoopEnd \/ Wait \/ Return

\* GetSpeciesDetails of task t returns.
DetailsReturn(t) ==
    /\ t \in DOMAIN tasks
    /\ \/ \E kind \in FailureKinds \cup {"invalid"} : TaskDetailsFail(t, kind)
       \/ TaskDetailsOk(t, LiveTaxon)

\* A step of task t other than the return of its GetSpeciesDetails call.
TaskStep(t) ==
    /\ t \in DOMAIN tasks
    /\ \/ TaskAcquire(t)
       \/ TaskLock(t)
       \/ TaskWrite(t)
       \/ TaskRelease(t)
       \/ TaskDone(t)

\* The Go scheduler runs every goroutine that can take a step; the HTTP
\* client of NewClient has a timeout, so every GetSpeciesDetails call
\* returns.
FairFanOut ==
    /\ WF_vars(MainStep)
    /\ \A t \in 1..MaxSpecies : WF_vars(TaskStep(t))
    /\ \A t \in 1..MaxSpecies : WF_vars(DetailsReturn(t))

InitLive ==
    /\ impl \in {"client", "dummy"}
    /\ ClientIdle
    /\ ScraperIdle
    /\ FnIdle
    /\ reqs = NoReqs
    /\ bg = BgStarted
    /\ h = HandlerIdle
    /\ fetchAlls = 1
    /\ par = NoPar

\* One call of GetSpeciesByCountry on a Client whose background fetch has
\* not answered yet.
NextLive ==
    \/ Invoke(<<"u", "s">>)
    \/ \E kind \in FailureKinds : GetFails(kind)
    \/ \E p \in LivePayloads : GetDecodes(p)
    \/ MainStep
    \/ \E t \in 1..MaxSpecies : TaskStep(t)
    \/ \E t \in 1..MaxSpecies : DetailsReturn(t)

SpecLive == InitLive /\ [][NextLive]_vars /\ FairFanOut

\* Task t was started.
Dispatched(t) == t \in DOMAIN tasks

\* Task t took a slot of the semaphore, wrote its slot of the list, gave the
\* semaphore slot back and called Done.
Finished(t) ==
    /\ t \in DOMAIN tasks
    /\ tasks[t].pc = "done"
    /\ speciesList[tasks[t].idx].Status # ""

\* C30: once GetSpeciesByCountry has decoded the response, it returns; and
\* every task it started gets a slot of the semaphore, writes its slot of
\* the list and finishes.
C30_FanOutTerminates ==
    /\ (pc = "loop") ~> (pc = "returned" /\ wg = 0 /\ sem = 0 /\ mu = Unlocked)
    /\ \A t \in 1..MaxSpecies : Dispatched(t) ~> Finished(t)

\* C30 witness: more tasks than the semaphore has slots were started, one
\* waited for a slot while another held it, and the call returned with all
\* of them finished.
C30_Witness ==
    /\ pc = "returned"
    /\ Len(tasks) = MaxSpecies
    /\ Len(tasks) > SemCap
    /\ \A t \in DOMAIN tasks : Finished(t)

\* A task waits for a slot of the semaphore while another task, holding the
\* slot, waits for the mutex that the loop holds.
C30_Contention ==
    /\ pc = "locked"
    /\ \E t, u \in DOMAIN tasks :
          /\ tasks[t].pc = "acquire"
          /\ tasks[u].pc = "lock"
          /\ sem = SemCap

\* ---------------------------------------------------------------------------
\* Result slots of the fan-out (client.go 157-207, app.js 560-613).

\* The task the dispatch loop gave slot k to.
OwnerOf(k) == { t \in DOMAIN tasks : tasks[t].idx = k }

\* C31: every slot the dispatch loop allocated is written exactly once, by
\* the task that was given its index: a slot is appended zero-valued, the
\* list never shrinks, tasks have pairwise different indices inside the list,
\* a slot changes only in the write step of its own task and then from the
\* zero value to a written one, and no slot is zero when GetSpeciesByCountry
\* returns its record; appending a later slot leaves the earlier ones alone.
C31_SlotsWrittenOnce ==
    [][ /\ \A t \in DOMAIN tasks' :
              /\ tasks'[t].idx \in DOMAIN speciesList'
              /\ \A u \in DOMAIN tasks' : tasks'[u].idx = tasks'[t].idx => u = t
        /\ Len(speciesList') >= Len(speciesList)
        /\ \A k \in DOMAIN speciesList' \ DOMAIN speciesList :
              IsZero(speciesList'[k])
        /\ \A k \in DOMAIN speciesList :
              speciesList'[k] # speciesList[k] =>
                  /\ IsZero(speciesList[k])
                  /\ ~IsZero(speciesList'[k])
                  /\ \E t \in OwnerOf(k) :
                        /\ tasks[t].pc = "write"
                        /\ tasks'[t].pc = "release"
                        /\ mu = t
        /\ (pc' = "returned" /\ ~ret'.err) =>
              \A k \in DOMAIN speciesList' :
                  /\ ~IsZero(speciesList'[k])
                  /\ \E t \in OwnerOf(k)' : tasks'[t].pc = "done"
      ]_vars

\* C31 witness: the loop has just appended the second slot, still zero, and
\* is about to start its task, while the first task has its slot written.
C31_Witness ==
    /\ pc = "spawn"
    /\ Len(speciesList) = 2
    /\ Len(tasks) = 1
    /\ ~IsZero(speciesList[1])
    /\ IsZero(speciesList[2])

\* The first task waits for the list lock the loop holds to append a slot.
C31_WitnessGrowing ==
    /\ pc = "locked"
    /\ Len(speciesList) = 1
    /\ Len(tasks) = 1
    /\ tasks[1].pc = "lock"
    /\ IsZero(speciesList[1])

\* The tasks between sem <- struct{}{} and the deferred <-sem.
Holding ==
    { t \in DOMAIN tasks : tasks[t].pc \in {"call", "lock", "write", "release"} }

\* C32: in every reachable state the tokens in the semaphore are as many as
\* the tasks between their acquire and their release, and between 0 and the
\* capacity, whether GetSpeciesDetails failed for a task or not: each task
\* adds one token at its acquire and takes one out at its release; the
\* semaphore is empty when GetSpeciesByCountry has returned.
C32_SemaphoreAccounting ==
    /\ sem = Cardinality(Holding)
    /\ sem \in 0..SemCap
    /\ pc = "returned" => (sem = 0 /\ Holding = {})

\* C32 witness: a task whose GetSpeciesDetails failed has written its slot
\* and still holds its token, just before the deferred release.
C32_Witness ==
    \E t \in DOMAIN tasks :
        /\ tasks[t].pc = "release"
        /\ tasks[t].res.err
        /\ sem = 1

\* The call has returned after one task failed and one succeeded.
C32_WitnessBothPaths ==
    /\ pc = "returned"
    /\ sem = 0
    /\ \E t, u \in DOMAIN tasks :
          /\ tasks[t].pc = "done" /\ tasks[t].res.err
          /\ tasks[u].pc = "done" /\ ~tasks[u].res.err

\* ---------------------------------------------------------------------------
\* Concurrent calls of Scraper.GetSpeciesByCountry (client.go 458-481).

Scraping == { c \in callers : sc[c].pc = "scrape" }

\* The calls that hold the write lock or wait for it.
Storing == { c \in callers : sc[c].pc \in {"wlock", "store"} }

\* C34: the cache lock is never held across a scrape. While a call computes
\* a missing entry it holds neither the read nor the write lock, so another
\* call that wants the read lock can take it unless a third one is storing
\* or about to store,
\* and a call that holds the read lock for a cached code can return the
\* cached record at once.
C34_NoLockAcrossScrape ==
    \A c \in Scraping :
        /\ cacheMutex.readers = Cardinality(Readers)
        /\ cacheMutex.writer <=> Writers # {}
        /\ \A d \in callers \ {c} :
              /\ (sc[d].pc = "rlock" /\ Storing = {}) => ENABLED ScRLock(d)
              /\ (sc[d].pc = "read" /\ sc[d].countryCode \in DOMAIN cache) =>
                    ENABLED (ScRead(d) /\ sc'[d].pc = "idle" /\ Len(hist') = Len(hist) + 1)

\* C34 witness: one call is computing the entry of a code the cache does not
\* hold while another holds the read lock for a code the cache holds.
C34_Witness ==
    \E c \in Scraping, d \in callers :
        /\ sc[d].pc = "read"
        /\ sc[d].countryCode \in DOMAIN cache
        /\ sc[c].countryCode \notin DOMAIN cache

\* The other call has returned the cached record while the first is still
\* computing: the newest returned call did not scrape.
C34_WitnessReturned ==
    /\ Scraping # {}
    /\ Len(hist) = 2
    /\ ~hist[2].scraped
    /\ \A c \in Scraping : sc[c].countryCode # hist[2].code

\* The returned call k computed its record itself and the record holds the
\* sample data: its scrape had failed.
ReturnedFallback(k) ==
    /\ hist[k].scraped
    /\ hist[k].data.Species = getSampleData(hist[k].code)

ParRequests == {1, 2}

\* A request not yet received: no call, no semaphore, no task.
ParIdle == [pc |-> "idle", n |-> 0, sem |-> 0, tasks |-> <<>>]

InitPar ==
    /\ impl = "client"
    /\ ClientIdle
    /\ ScraperIdle
    /\ FnIdle
    /\ reqs = NoReqs
    /\ bg = NoBg
    /\ h = HandlerIdle
    /\ fetchAlls = 0
    /\ par = [r \in ParRequests |-> ParIdle]

\* The handler of request r: NewClient, then GetSpeciesByCountry up to the
\* dispatch loop: sem := make(chan struct{}, 10), and a decoded response of
\* which n assessments will get a slot.
ParServe(r, n) ==
    /\ par # NoPar
    /\ par[r].pc = "idle"
    /\ n \in 0..MaxSpecies
    /\ par' = [par EXCEPT ![r] = [pc |-> "loop", n |-> n, sem |-> 0, tasks |-> <<>>]]
    /\ UNCHANGED << impl, clientVars, scraperVars, reqs, serverVars, arg, out >>

\* The loop of request r starts the goroutine of its next slot.
ParSpawn(r) ==
    /\ par # NoPar
    /\ par[r].pc = "loop"
    /\ Len(par[r].tasks) < par[r].n
    /\ par' = [par EXCEPT ![r].tasks = Append(@, "acquire")]
    /\ UNCHANGED << impl, clientVars, scraperVars, reqs, serverVars, arg, out >>

\* The tokens in the semaphores of all requests together.
ParTokens == Cardinality({ rt \in ParRequests \X (1..MaxSpecies) :
                             /\ rt[2] \in DOMAIN par[rt[1]].tasks
                             /\ par[rt[1]].tasks[rt[2]] \in {"call", "release"} })

\* Mutant of ParAcquire: one semaphore for the whole process.
ParAcquireShared(r, t) ==
    /\ par # NoPar
    /\ t \in DOMAIN par[r].tasks
    /\ par[r].tasks[t] = "acquire"
    /\ ParTokens < SemCap
    /\ par' = [par EXCEPT ![r].sem = @ + 1, ![r].tasks[t] = "call"]
    /\ UNCHANGED << impl, clientVars, scraperVars, reqs, serverVars, arg, out >>

\* sem <- struct{}{} of task t of request r: blocks while the semaphore of
\* its own call is full.
ParAcquire(r, t) ==
    /\ par # NoPar
    /\ t \in DOMAIN par[r].tasks
    /\ par[r].tasks[t] = "acquire"
    /\ par[r].sem < SemCap
    /\ par' = [par EXCEPT ![r].sem = @ + 1, ![r].tasks[t] = "call"]
    /\ UNCHANGED << impl, clientVars, scraperVars, reqs, serverVars, arg, out >>

\* GetSpeciesDetails of the task returns; the task stores its species.
ParDetails(r, t) ==
    /\ par # NoPar
    /\ t \in DOMAIN par[r].tasks
    /\ par[r].tasks[t] = "call"
    /\ par' = [par EXCEPT ![r].tasks[t] = "release"]
    /\ UNCHANGED << impl, clientVars, scraperVars, reqs, serverVars, arg, out >>

\* Deferred <-sem and wg.Done().
ParRelease(r, t) ==
    /\ par # NoPar
    /\ t \in DOMAIN par[r].tasks
    /\ par[r].tasks[t] = "release"
    /\ par' = [par EXCEPT ![r].sem = @ - 1, ![r].tasks[t] = "done"]
    /\ UNCHANGED << impl, clientVars, scraperVars, reqs, serverVars, arg, out >>

\* The loop is over, wg.Wait() returns, the handler writes the record.
ParReturn(r) ==
    /\ par # NoPar
    /\ par[r].pc = "loop"
    /\ Len(par[r].tasks) = par[r].n
    /\ \A t \in DOMAIN par[r].tasks : par[r].tasks[t] = "done"
    /\ par' = [par EXCEPT ![r].pc = "returned"]
    /\ UNCHANGED << impl, clientVars, scraperVars, reqs, serverVars, arg, out >>

NextPar ==
    \/ \E r \in ParRequests, n \in 0..MaxSpecies : ParServe(r, n)
    \/ \E r \in ParRequests : ParSpawn(r)
    \/ \E r \in ParRequests, t \in 1..MaxSpecies : ParAcquire(r, t)
    \/ \E r \in ParRequests, t \in 1..MaxSpecies : ParDetails(r, t)
    \/ \E r \in ParRequests, t \in 1..MaxSpecies : ParRelease(r, t)
    \/ \E r \in ParRequests : ParReturn(r)

SpecPar == InitPar /\ [][NextPar]_vars

\* The GetSpeciesDetails calls of request r in flight.
ParInFlight(r) == { t \in DOMAIN par[r].tasks : par[r].tasks[t] = "call" }

\* The GetSpeciesDetails calls in flight in the whole process.
ParInFlightAll ==
    { rt \in ParRequests \X (1..MaxSpecies) : rt[2] \in ParInFlight(rt[1]) }

\* The requests inside GetSpeciesByCountry.
ParActive == { r \in ParRequests : par[r].pc = "loop" }

\* C36: the ceiling on the detail calls in flight belongs to one invocation.
\* Each request has at most as many calls in flight as its own semaphore has
\* slots; a task waiting for a slot gets it as soon as the semaphore of its
\* own request has one free, whatever the other requests hold; so the calls
\* in flight of k requests served at once are bounded by k times the
\* capacity only.
C36_CeilingPerInvocation ==
    /\ \A r \in ParRequests :
          /\ Cardinality(ParInFlight(r)) <= par[r].sem
          /\ par[r].sem <= SemCap
          /\ \A t \in DOMAIN par[r].tasks :
                (par[r].tasks[t] = "acquire" /\ par[r].sem < SemCap) =>
                    ENABLED ParAcquire(r, t)
    /\ Cardinality(ParInFlightAll) <= SemCap * Cardinality(ParActive)

\* C36 witness: both requests have every slot of their semaphore taken by a
\* call in flight: twice the capacity in the process.
C36_Witness ==
    /\ \A r \in ParRequests : Cardinality(ParInFlight(r)) = SemCap
    /\ Cardinality(ParInFlightAll) = SemCap * Cardinality(ParRequests)

\* ------------------------------------------------------------------------
\* The getDummyData revision alone (app.js 507-515, 238-363).
\* ------------------------------------------------------------------------

\* The codes callers pass: the three built-in ones in several spellings,
\* and codes getDummyData does not know (among them one letter of a
\* built-in code and a built-in code with a letter more).
DummyInputs ==
    { <<"c", "a">>, <<"B", "r">>, <<"b", "r">>, <<"A", "U">>,
      <<"u", "s">>, <<"c">>, <<"a", "u", "s">> }

\* The codes getDummyData has a record for.
DummyCodes == { <<"C", "A">>, <<"B", "R">>, <<"A", "U">> }

InitDummy ==
    /\ impl = "dummy"
    /\ ClientIdle
    /\ ScraperIdle
    /\ FnIdle
    /\ reqs = NoReqs
    /\ bg = BgStarted
    /\ h = HandlerIdle
    /\ fetchAlls = 1
    /\ par = NoPar

\* One call of GetSpeciesByCountry of the getDummyData revision; the
\* upstream answers in any way when it is asked.
NextDummy ==
    \/ \E code \in DummyInputs : Invoke(code)
    \/ \E kind \in FailureKinds : GetFails(kind)
    \/ \E p \in LivePayloads : GetDecodes(p)
    \/ MainStep
    \/ \E t \in 1..MaxSpecies : TaskStep(t)
    \/ \E t \in 1..MaxSpecies : DetailsReturn(t)

SpecDummy == InitDummy /\ [][NextDummy]_vars

\* The call has started.
Invoked == pc # "idle"

C37_WitnessLive ==
    /\ pc = "returned"
    /\ countryCode = <<"A", "U", "S">>
    /\ ~ret.err
    /\ reqs.country = 1
    /\ Len(ret.data.Species) >= 1

\* ------------------------------------------------------------------------
\* Order of the checks of Handler.GetSpeciesByCountry (handlers.go 38-78).

\* The step in which the handler of handlers.go takes a request in and
\* either answers it at once or goes on to call the scraper.
ReceiveStep ==
    /\ impl = "scraper"
    /\ h.pc \in {"idle", "done"}
    /\ \/ h'.pc = "call"
       \/ h'.pc = "done" /\ h'.served = h.served + 1

\* C38: Handler.GetSpeciesByCountry checks in a fixed order. OPTIONS is
\* answered 200 with no body whatever the path; any other method than GET is
\* answered 405 whatever the path, also one with an invalid code; a GET with
\* an empty code or one not of length 2 is answered 400; only a GET with a
\* code of length 2 goes on to the scraper. On the three rejecting paths the
\* scraper is not called and its cache, its lock and the list of returned
\* calls are as before.
C38_ChecksInOrder ==
    [][ ReceiveStep =>
          /\ h'.method = "OPTIONS" =>
                /\ h'.pc = "done"
                /\ h'.resp.status = 200
                /\ h'.resp.body.kind = "none"
          /\ h'.method \notin {"GET", "OPTIONS"} =>
                /\ h'.pc = "done"
                /\ h'.resp.status = 405
                /\ h'.resp.body.kind = "json"
          /\ (h'.method = "GET" /\ Len(h'.countryCode) # 2) =>
                /\ h'.pc = "done"
                /\ h'.resp.status = 400
                /\ h'.resp.body.kind = "json"
          /\ (h'.method = "GET" /\ Len(h'.countryCode) = 2) => h'.pc = "call"
          /\ h'.countryCode = TrimSpace(h'.path)
          /\ h'.pc = "done" =>
                /\ UNCHANGED scraperVars
                /\ sc[1].pc = "idle"
      ]_vars

\* C38 witness: a POST with a code of three letters was answered 405, not
\* 400, while the cache held an entry of an earlier request, still there.
C38_Witness ==
    /\ impl = "scraper"
    /\ Answered
    /\ h.method = "POST"
    /\ Len(h.countryCode) = 3
    /\ h.resp.status = 405
    /\ cache # <<>>
    /\ Len(hist) = 1

\* An OPTIONS request with an empty code was answered 200.
C38_WitnessPreflight ==
    /\ impl = "scraper"
    /\ Answered
    /\ h.method = "OPTIONS"
    /\ h.countryCode = <<>>
    /\ h.resp.status = 200

\* A GET with a code of one letter was answered 400 and nothing was scraped.
C38_WitnessBadCode ==
    /\ impl = "scraper"
    /\ Answered
    /\ h.method = "GET"
    /\ Len(h.countryCode) = 1
    /\ h.resp.status = 400
    /\ cache = <<>>
    /\ hist = <<>>

\* ------------------------------------------------------------------------
\* A response without a CR, EN or VU assessment (client.go 145-223).

\* The names FetchAllCountries can have put in the index for a code.
IndexNames(code) ==
    UNION { { l[k].En : k \in { j \in DOMAIN l : l[j].Code = code } } :
              l \in CountryLists }

\* The /countries/{code} response was decoded and none of its assessments,
\* if it has any, is CR, EN or VU.
NoneQualifies ==
    /\ impl \in {"client", "dummy"}
    /\ Decoded
    /\ Qualifying = <<>>

\* C39: when the decoded response has no assessment or none of category CR,
\* EN or VU, GetSpeciesByCountry allocates no slot, starts no task and makes
\* no GetSpeciesDetails call or request, and the record it returns has no
\* species, the uppercased code of the request, and as the country name the
\* name of the response or, when that is empty, what the index lookup gives
\* (an entry for the code, or the code).
C39_NothingQualifies ==
    NoneQualifies =>
        /\ speciesList = <<>>
        /\ tasks = <<>>
        /\ reqs.taxa = <<>>
        /\ sem = 0 /\ wg = 0 /\ mu = Unlocked
        /\ pc = "returned" =>
              /\ ~ret.err
              /\ ret.data.Species = <<>>
              /\ ret.data.CountryCode = countryCode
              /\ h.pc = "call" => countryCode = ToUpper(h.countryCode)
              /\ reqs.country = 1
              /\ ret.data.Country \in
                    (IF countryResp.name # <<>>
                     THEN { countryResp.name }
                     ELSE { countryCode } \cup IndexNames(countryCode))

\* C39 witness: the response for "br" had a name and one assessment, of
\* category NT; the record returned has the name and no species.
C39_Witness ==
    /\ NoneQualifies
    /\ pc = "returned"
    /\ h.pc = "call"
    /\ Len(countryResp.assessments) = 1
    /\ h.countryCode = <<"b", "r">>
    /\ ret.data.Country = <<"Brazil">>
    /\ ret.data.CountryCode = <<"B", "R">>
    /\ ret.data.Species = <<>>

\* The response for "us" had no name and no assessment; the record carries
\* the name of the index.
C39_WitnessEmptyList ==
    /\ NoneQualifies
    /\ pc = "returned"
    /\ countryResp.assessments = <<>>
    /\ countryResp.name = <<>>
    /\ ret.data.Country = <<"United", " ", "States">>
    /\ ret.data.Species = <<>>

====
